---- MODULE Spec2Model ----
(***************************************************************************)
(* A model of the tile world of terrustia: the tile map and its mutation   *)
(* protocol (terrain.rs, terrain/generation.rs), the fixed-step body       *)
(* integrator and its presentation step (physics.rs), and the tile range   *)
(* of a body (physics.rs).                                                  *)
(*                                                                          *)
(* Lengths are fixed-point integers, Unit of them to one world unit;       *)
(* durations are integers in microseconds.  An Option<T> is a sequence of  *)
(* length 0 (None) or 1 (Some).                                             *)
(***************************************************************************)
EXTENDS Integers, Sequences, FiniteSets, TLC

VARIABLES
    timestep,     \* Time<Fixed>::timestep(), microseconds
    tiles,        \* the TileData component of every tile entity, by coordinate
    break_timer,  \* the Option<BreakTimer> of every tile entity: elapsed microseconds
    collider,     \* whether the tile entity carries a Collider
    item_events,  \* the ItemPickedUp events written so far
    pending,      \* the TileDestroyed / TilePlaced triggers queued by tile_interaction
    last_obs,     \* history: the observer that ran last and the state it found
    held,         \* history: time the destroy action was held on the tile since it was last made solid
    hold,         \* history: the current run of consecutive destroy-only steps on one tile
    last_destroy, \* history: the tile the latest TileDestroyed trigger targeted
    position,     \* MovementState.position of the body
    velocity,     \* MovementState.velocity of the body
    transform,    \* the body's Transform: translation and scale
    keys,         \* ButtonInput<KeyCode>: the keys held
    pc,           \* 0 outside FixedUpdate, else the place in the chain of the system to run next
    steps,        \* fixed steps begun so far
    presented,    \* history: for each presentation step run, the number of fixed steps before it
    step_start,   \* history: the body as the current fixed step found it
    sim,          \* history: the body as fixed steps alone, with no presentation, leave it
    occupied,     \* the Option of the ranges tiles_occupied returned
    caster_hits,  \* the player's ShapeHits: the hits of the downward shape cast
    grounded,     \* whether the player entity carries Grounded
    player_vel,   \* the player's LinearVelocity
    keyboard,     \* ButtonInput<KeyCode> as the Update schedule sees it: pressed, just_pressed
    upc,          \* 0 between frames, else the place in (update_grounded, keyboard_input) to run next
    frames,       \* frames begun so far
    inventory,    \* the five Option<ItemStack> slots of the inventory
    result        \* the Option of what the function called last returned

tileVars == <<timestep, tiles, break_timer, collider, item_events, pending,
              last_obs, held, hold, last_destroy>>

physVars == <<position, velocity, transform, keys, pc, steps, presented,
              step_start, sim>>

playerVars == <<caster_hits, grounded, player_vel, keyboard, upc, frames, inventory>>

vars == <<tileVars, physVars, occupied, playerVars, result>>

----------------------------------------------------------------------------
(* Bounds of the model *)

\* fixed-point resolution: units per world unit
Unit == 4
\* MapParameters.map_width, scaled down
map_width == 0
\* MapParameters.map_height, scaled down
map_height == 1
\* MapParameters.sky_height, scaled down
sky_height == 0
\* the highest total hill height added to a column's offset
MaxHillRise == 2
\* ItemPickedUp events buffered between two event updates
MaxEvents == 1
\* fixed steps simulated
MaxSteps == 2
\* presentation steps run
MaxPresent == 2
\* frames the player's systems run in
MaxFrames == 2
\* the widest map_width a map is rasterized for
MaxRasterWidth == 2

\* runs of velocity_cap over one velocity
MaxCapRuns == 2
\* ItemPickedUp events pending when handle_item_pickups runs
MaxPickups == 3

\* the fixed timesteps the app may be configured with (microseconds)
Timesteps == {250000, 300000}

----------------------------------------------------------------------------
(* Program constants *)

BREAK_TIME == 600000
offsets_shift_limit == 4
dirt_thickness == 5

right_edge == map_width \div 2
left_edge == (0 - (map_width \div 2)) - 1
top_edge == sky_height
bottom_edge == (sky_height - map_height) + 1

Columns == left_edge..right_edge
Rows == bottom_edge..top_edge
Coords == Columns \X Rows

----------------------------------------------------------------------------
(* round_to: f32 -> i16 *)

FloorTo(v) == v \div Unit
CeilTo(v) == 0 - ((0 - v) \div Unit)

----------------------------------------------------------------------------
(* Tile data *)

TileData(fg, bg, s) == [fg_id |-> fg, bg_id |-> bg, solid |-> s]

TileDataDefault == TileData(0, 0, FALSE)

\* build_terrain: the initial tile state depends on the row j
BuildTerrainTile(j) ==
    IF j >= 1 THEN TileDataDefault
    ELSE IF j = 0 THEN TileData(2, 1, TRUE)
    ELSE IF j >= -10 THEN TileData(1, 1, TRUE)
    ELSE TileData(3, 3, TRUE)

\* rasterize_canvas: the entry (if any) baked for row y of a column whose
\* grass block is at `level`
RasterizeCanvasTile(level, y) ==
    IF y = level THEN <<TileData(2, 1, TRUE)>>
    ELSE IF y >= level - dirt_thickness /\ y < level THEN <<TileData(1, 1, TRUE)>>
    ELSE IF y >= bottom_edge /\ y < level - dirt_thickness THEN <<TileData(3, 3, TRUE)>>
    ELSE <<>>

\* GameMap::from_world: the baked data, or the default for air blocks
FromWorldTile(level, y) ==
    LET td == RasterizeCanvasTile(level, y)
    IN  IF td = <<>> THEN TileDataDefault ELSE td[1]

\* the surface levels rasterize_canvas can compute: an offset plus the hills
Levels == (0 - offsets_shift_limit)..(offsets_shift_limit + MaxHillRise)

TileUnder_FloorFloor(p) ==
    LET c == <<FloorTo(p[1]), FloorTo(p[2])>>
    IN  IF c \in Coords THEN <<c>> ELSE <<>>
\* GameMap::tile_under: the map entry under a world-space point
TileUnder(p) ==
    LET c == <<FloorTo(p[1]), CeilTo(p[2])>>
    IN  IF c \in Coords THEN <<c>> ELSE <<>>

----------------------------------------------------------------------------
(* Inputs *)

Buttons == {"Left", "Right", "Middle"}

\* where the pointer can be, in world space
CursorPoints ==
    { <<0 - (Unit \div 2), (top_edge * Unit) - (Unit \div 2)>>,
      <<0, top_edge * Unit>>,
      <<Unit + (Unit \div 2), top_edge * Unit>> }

NoObs == [kind |-> "none", target |-> <<>>, tile |-> TileDataDefault,
          timer |-> <<>>, collider |-> FALSE, events |-> <<>>, held |-> 0]
NoHold == [tile |-> <<>>, time |-> 0, commits |-> 0, events |-> 0]

----------------------------------------------------------------------------
(* Initial state: the world after build_terrain / GameMap::from_world *)

\* the body as MovementState::default / Transform::default create it
BodyDefault ==
    [position |-> <<0, 0>>, velocity |-> <<0, 0>>,
     transform |-> [translation |-> <<0, 0>>, scale |-> <<Unit, Unit>>]]

\* no body is simulated
NoBody ==
    /\ position = BodyDefault.position
    /\ velocity = BodyDefault.velocity
    /\ transform = BodyDefault.transform
    /\ keys = {}
    /\ pc = 0
    /\ steps = 0
    /\ presented = <<>>
    /\ step_start = BodyDefault
    /\ sim = BodyDefault
    /\ occupied = <<>>

\* no frame has run for the player, nothing is in the inventory, no function
\* has been called
NoPlayer ==
    /\ caster_hits = {}
    /\ grounded = FALSE
    /\ player_vel = <<0, 0>>
    /\ keyboard = [pressed |-> {}, just_pressed |-> {}]
    /\ upc = 0
    /\ frames = 0
    /\ inventory = [i \in 1..5 |-> <<>>]
    /\ result = <<>>

\* no tile is interacted with
NoInteraction ==
    /\ break_timer = [c \in Coords |-> <<>>]
    /\ collider = [c \in Coords |-> tiles[c].solid]
    /\ item_events = <<>>
    /\ pending = <<>>
    /\ last_obs = NoObs
    /\ held = [c \in Coords |-> 0]
    /\ hold = NoHold
    /\ last_destroy = <<>>

InitTiles ==
    /\ timestep \in Timesteps
    /\ \/ tiles = [c \in Coords |-> BuildTerrainTile(c[2])]
       \/ \E level \in [Columns -> Levels] :
              tiles = [c \in Coords |-> FromWorldTile(level[c[1]], c[2])]
    /\ NoInteraction
    /\ NoPlayer
    /\ NoBody

----------------------------------------------------------------------------
(* tile_interaction: one FixedUpdate run *)

\* the triggers for the pressed buttons, in the order get_pressed yields them
Triggers(order, t) ==
    LET kind(b) == IF b = "Left" THEN "TileDestroyed" ELSE "TilePlaced"
        RECURSIVE Go(_)
        Go(s) == IF s = <<>> THEN <<>>
                 ELSE IF Head(s) \in {"Left", "Right"}
                      THEN <<[kind |-> kind(Head(s)), target |-> t]>> \o Go(Tail(s))
                      ELSE Go(Tail(s))
    IN  Go(order)

\* every order in which a set of buttons can be iterated
RECURSIVE Orders(_)
Orders(pressed) ==
    IF pressed = {} THEN {<<>>}
    ELSE UNION { { <<b>> \o s : s \in Orders(pressed \ {b}) } : b \in pressed }

\* history: the run of consecutive steps whose only action is a destroy on one tile
HoldAfter(pressed, under) ==
    IF "Left" \in pressed /\ "Right" \notin pressed /\ under # <<>>
    THEN IF hold.tile = under
         THEN [hold EXCEPT !.time = IF @ + timestep >= BREAK_TIME
                                    THEN BREAK_TIME ELSE @ + timestep]
         ELSE IF tiles[under[1]].solid
              THEN [tile |-> under, time |-> timestep, commits |-> 0, events |-> 0]
              ELSE NoHold
    ELSE NoHold

TileInteraction(pressed, order, cursor) ==
    /\ pending = <<>>
    /\ Len(item_events) < MaxEvents
    /\ order \in Orders(pressed)
    /\ LET under == TileUnder(cursor)
       IN  /\ pending' = IF pressed \cap {"Left", "Right"} = {} \/ under = <<>>
                         THEN <<>>
                         ELSE Triggers(order, under[1])
           /\ hold' = HoldAfter(pressed, under)
           /\ last_destroy' = IF "Left" \in pressed /\ under # <<>>
                              THEN under ELSE last_destroy
    /\ last_obs' = NoObs
    /\ UNCHANGED <<timestep, tiles, break_timer, collider, item_events, held>>
    /\ UNCHANGED <<physVars, occupied, playerVars, result>>

----------------------------------------------------------------------------
(* The observers *)

Observed(kind, t) ==
    [kind |-> kind, target |-> <<t>>, tile |-> tiles[t], timer |-> break_timer[t],
     collider |-> collider[t], events |-> item_events, held |-> held[t]]

\* Stopwatch::tick on a running stopwatch
Tick(elapsed, delta) == elapsed + delta

NewBreakTimer_Unticked == Tick(0, 0)
\* the elapsed time of the BreakTimer a first destroy action inserts
NewBreakTimer == Tick(0, timestep)

\* a timer at BREAK_TIME exactly taken as not ready
NotReady_Inclusive(elapsed) == elapsed <= BREAK_TIME
\* tile_destruction's test of the ticked timer: not ready yet
NotReady(elapsed) == elapsed < BREAK_TIME

Breakable_Always(tile) == TRUE
\* tile_destruction: tiles that aren't solid can't be broken
Breakable(tile) == tile.solid

\* the tile a commit leaves behind
\* a change that takes the tile's entry out of the map
GetMut_Removed(map, t, data) == [c \in (DOMAIN map) \ {t} |-> map[c]]
\* tiles.get_mut(trigger.target()): the observers write the fields of the
\* tile's TileData in place; the tile's entity and its GameMap entry stay
GetMut(map, t, data) == [map EXCEPT ![t] = data]

Destroyed(tile) == [tile EXCEPT !.fg_id = 0, !.solid = FALSE]

PickedUp_AfterClear(tile) == Destroyed(tile).fg_id
\* the material the ItemPickedUp event of a commit carries
PickedUp(tile) == tile.fg_id

\* tile_destruction on a tile that can be broken
DestroySolid(t) ==
    IF break_timer[t] = <<>>
    THEN /\ break_timer' = [break_timer EXCEPT ![t] = <<NewBreakTimer>>]
         /\ held' = [held EXCEPT ![t] = @ + timestep]
         /\ UNCHANGED <<tiles, collider, item_events, hold>>
    ELSE LET ticked == Tick(break_timer[t][1], timestep)
         IN  IF NotReady(ticked)
             THEN /\ break_timer' = [break_timer EXCEPT ![t] = <<ticked>>]
                  /\ held' = [held EXCEPT ![t] = @ + timestep]
                  /\ UNCHANGED <<tiles, collider, item_events, hold>>
             ELSE /\ item_events' = Append(item_events, PickedUp(tiles[t]))
                  /\ break_timer' = [break_timer EXCEPT ![t] = <<>>]
                  /\ tiles' = GetMut(tiles, t, Destroyed(tiles[t]))
                  /\ collider' = [collider EXCEPT ![t] = FALSE]
                  /\ held' = [held EXCEPT ![t] = 0]
                  /\ hold' = IF hold.tile = <<t>>
                             THEN [hold EXCEPT !.commits = @ + 1, !.events = @ + 1]
                             ELSE hold

TileDestruction ==
    /\ pending # <<>>
    /\ Head(pending).kind = "TileDestroyed"
    /\ LET t == Head(pending).target
       IN  /\ last_obs' = Observed("TileDestroyed", t)
           /\ IF Breakable(tiles[t])
              THEN DestroySolid(t)
              ELSE UNCHANGED <<tiles, break_timer, collider, item_events, held, hold>>
    /\ pending' = Tail(pending)
    /\ UNCHANGED <<timestep, last_destroy>>
    /\ UNCHANGED <<physVars, occupied, playerVars, result>>

Placed_NoSolid(tile) == [tile EXCEPT !.fg_id = 1]
\* the tile tile_placement leaves on a non-solid tile
Placed(tile) == [tile EXCEPT !.fg_id = 1, !.solid = TRUE]

PlaceAllowed_Always(tile) == TRUE
\* tile_placement: solid objects can't be placed on top of other solid objects
PlaceAllowed(tile) == ~tile.solid

TilePlacement ==
    /\ pending # <<>>
    /\ Head(pending).kind = "TilePlaced"
    /\ LET t == Head(pending).target
       IN  /\ last_obs' = Observed("TilePlaced", t)
           /\ IF PlaceAllowed(tiles[t])
              THEN /\ tiles' = GetMut(tiles, t, Placed(tiles[t]))
                   /\ collider' = [collider EXCEPT ![t] = TRUE]
              ELSE UNCHANGED <<tiles, collider>>
    /\ pending' = Tail(pending)
    /\ UNCHANGED <<timestep, break_timer, item_events, held, hold, last_destroy>>
    /\ UNCHANGED <<physVars, occupied, playerVars, result>>

\* add_event::<ItemPickedUp>(): the engine's event update drops the buffered
\* events once the frames that could read them have passed
EventUpdate ==
    /\ pending = <<>>
    /\ item_events # <<>>
    /\ item_events' = <<>>
    /\ last_obs' = NoObs
    /\ UNCHANGED <<timestep, tiles, break_timer, collider, pending, held, hold,
                   last_destroy>>
    /\ UNCHANGED <<physVars, occupied, playerVars, result>>

----------------------------------------------------------------------------
(* Fixed-point arithmetic standing for f32 *)

Micro == 10 ^ 6

\* the parts a unit vector's components are counted in
Milli == 10 ^ 3

\* a / b, rounded toward zero (b > 0)
TruncDiv(a, b) == IF a >= 0 THEN a \div b ELSE 0 - ((0 - a) \div b)

Abs(a) == IF a >= 0 THEN a ELSE 0 - a

\* the integer square root
RECURSIVE IsqrtIn(_, _, _)
IsqrtIn(n, lo, hi) ==
    IF lo >= hi THEN lo
    ELSE LET mid == (lo + hi + 1) \div 2
         IN  IF mid * mid <= n THEN IsqrtIn(n, mid, hi) ELSE IsqrtIn(n, lo, mid - 1)

Isqrt(n) == IsqrtIn(n, 0, IF n < 2 ^ 15 THEN n ELSE 2 ^ 15)

\* a rational <<num, den>> times an integer
Scaled(r, a) == TruncDiv(r[1] * a, r[2])

\* v * seconds, for a duration in microseconds
OverTime(a, dt) == TruncDiv(a * dt, Micro)

----------------------------------------------------------------------------
(* physics.rs: the fixed-step systems *)

DRAG_FACTOR == <<5, 100>>
GRAVITY == -15
PLAYER_ACCEL == 60
VELOCITY_MAX == 300

\* check_collisions: the factor a blocked velocity component is multiplied by
Damping == <<-5, 100>>

SystemChain_PositionFirst ==
    <<"accel_env", "accel_input", "velocity_cap", "position_update", "check_collisions">>
\* PhysicsPlugin::build: the systems of FixedUpdate, chained in this order
SystemChain ==
    <<"accel_env", "accel_input", "velocity_cap", "check_collisions", "position_update">>

\* accel_env: drag and gravity
AccelEnv(v, dt) ==
    LET drag_impulse == <<OverTime(Scaled(DRAG_FACTOR, v[1]), dt),
                          OverTime(Scaled(DRAG_FACTOR, v[2]), dt)>>
        grav_impulse == OverTime(GRAVITY * Unit, dt)
    IN  <<v[1] + drag_impulse[1], v[2] + drag_impulse[2] + grav_impulse>>

\* accel_input: the direction the held keys add up to
InputDirection(ks) ==
    <<(IF "KeyD" \in ks THEN 1 ELSE 0) - (IF "KeyA" \in ks THEN 1 ELSE 0),
      (IF "KeyW" \in ks THEN 1 ELSE 0) - (IF "KeyS" \in ks THEN 1 ELSE 0)>>

\* Vec2::normalize_or_zero, in units of 1 / Milli
NormalizeOrZero(d) ==
    LET len == Isqrt((d[1] * d[1] + d[2] * d[2]) * Milli * Milli)
    IN  IF len = 0 THEN <<0, 0>>
        ELSE <<TruncDiv(d[1] * Milli * Milli, len), TruncDiv(d[2] * Milli * Milli, len)>>

\* accel_input: the impulse of the held keys
AccelInput(v, ks, dt) ==
    LET n == NormalizeOrZero(InputDirection(ks))
    IN  <<v[1] + OverTime(TruncDiv(n[1] * PLAYER_ACCEL * Unit, Milli), dt),
          v[2] + OverTime(TruncDiv(n[2] * PLAYER_ACCEL * Unit, Milli), dt)>>

LengthSquared(v) == v[1] * v[1] + v[2] * v[2]

\* Vec2::clamp_length_max
ClampLengthMax(v, max) ==
    IF LengthSquared(v) > max * max
    THEN LET len == Isqrt(LengthSquared(v))
         IN  <<TruncDiv(max * v[1], len), TruncDiv(max * v[2], len)>>
    ELSE v

\* a cap applied to each component on its own
VelocityCap_Componentwise(v) ==
    LET cap == VELOCITY_MAX * Unit
        Capped(a) == IF a > cap THEN cap ELSE IF a < 0 - cap THEN 0 - cap ELSE a
    IN  <<Capped(v[1]), Capped(v[2])>>

\* velocity_cap
VelocityCap(v) ==
    IF LengthSquared(v) < (VELOCITY_MAX * Unit) * (VELOCITY_MAX * Unit)
    THEN v
    ELSE ClampLengthMax(v, VELOCITY_MAX * Unit)

\* occupied_tile_range: the inclusive rectangle of tile coordinates around a
\* body, lower bounds rounded down and upper bounds rounded up
OccupiedTileRange(center, size) ==
    [lo |-> <<FloorTo(center[1] - (size[1] \div 2)), FloorTo(center[2] - (size[2] \div 2))>>,
     hi |-> <<CeilTo(center[1] + (size[1] \div 2)), CeilTo(center[2] + (size[2] \div 2))>>]

\* get_region_tiles: the map's entries inside the rectangle
GetRegionTiles(r) ==
    { c \in Coords : /\ r.lo[1] <= c[1] /\ c[1] <= r.hi[1]
                     /\ r.lo[2] <= c[2] /\ c[2] <= r.hi[2] }

\* the Transform a tile is spawned with: translation (x + 0.5, y - 0.5), scale 1
TileTransform(c) ==
    [translation |-> <<c[1] * Unit + (Unit \div 2), c[2] * Unit - (Unit \div 2)>>,
     scale |-> <<Unit, Unit>>]

Clamp(a, lo, hi) == IF a < lo THEN lo ELSE IF a > hi THEN hi ELSE a

\* Aabb2d::new(center, half_size).closest_point(p)
ClosestPoint(center, half, p) ==
    <<Clamp(p[1], center[1] - half[1], center[1] + half[1]),
      Clamp(p[2], center[2] - half[2], center[2] + half[2])>>

\* check_collisions: the offset of the body from a tile's box
TileOffset(pos, c) ==
    LET tt == TileTransform(c)
        closest == ClosestPoint(tt.translation,
                                <<tt.scale[1] \div 2, tt.scale[2] \div 2>>, pos)
    IN  <<pos[1] - closest[1], pos[2] - closest[2]>>

BodyCenter_Transform(pos, tr) == tr.translation
\* check_collisions: the point the body's box is centred on
BodyCenter(pos, tr) == pos

ContactSide_TileFace(pos, tr, c, map) ==
    LET offset == TileOffset(BodyCenter(pos, tr), c)
        height_diff == (tr.scale[2] - tr.scale[1]) \div 2
    IN  IF ~map[c].solid THEN "none"
        ELSE IF Abs(offset[1]) > tr.scale[1] \div 2 THEN "none"
        ELSE IF Abs(offset[2]) > tr.scale[2] \div 2 THEN "none"
        ELSE IF Abs(offset[1]) > Abs(offset[2]) - height_diff
             THEN IF offset[1] < 0 THEN "left" ELSE "right"
             ELSE IF offset[2] < 0 THEN "bottom" ELSE "top"
\* check_collisions: the side of the body a solid tile touches, or "none"
ContactSide(pos, tr, c, map) ==
    LET offset == TileOffset(BodyCenter(pos, tr), c)
        height_diff == (tr.scale[2] - tr.scale[1]) \div 2
    IN  IF ~map[c].solid THEN "none"
        ELSE IF Abs(offset[1]) > tr.scale[1] \div 2 THEN "none"
        ELSE IF Abs(offset[2]) > tr.scale[2] \div 2 THEN "none"
        ELSE IF Abs(offset[1]) > Abs(offset[2]) - height_diff
             THEN IF offset[1] < 0 THEN "right" ELSE "left"
             ELSE IF offset[2] < 0 THEN "top" ELSE "bottom"

\* check_collisions: the edges of the body that collide with something
Contacts(pos, tr, map) ==
    { ContactSide(pos, tr, c, map) :
        c \in GetRegionTiles(OccupiedTileRange(BodyCenter(pos, tr), tr.scale)) } \ {"none"}

\* a velocity component turned around once for every tile on that side
CheckCollisions_PerTile(pos, v, tr, map) ==
    LET region == GetRegionTiles(OccupiedTileRange(BodyCenter(pos, tr), tr.scale))
        On(side) == { c \in region : ContactSide(pos, tr, c, map) = side }
        Turned(a, n) == IF n = 0 THEN a
                        ELSE IF n = 1 THEN Scaled(Damping, a)
                        ELSE Scaled(Damping, Scaled(Damping, a))
        vx == IF v[1] < 0 THEN Turned(v[1], Cardinality(On("left")))
              ELSE IF v[1] > 0 THEN Turned(v[1], Cardinality(On("right")))
              ELSE v[1]
        vy == IF v[2] < 0 THEN Turned(v[2], Cardinality(On("bottom")))
              ELSE IF v[2] > 0 THEN Turned(v[2], Cardinality(On("top")))
              ELSE v[2]
    IN  <<vx, vy>>

\* check_collisions: the velocity after the edge conditions
CheckCollisions(pos, v, tr, map) ==
    LET sides == Contacts(pos, tr, map)
        vx == IF "left" \in sides /\ v[1] < 0 THEN Scaled(Damping, v[1])
              ELSE IF "right" \in sides /\ v[1] > 0 THEN Scaled(Damping, v[1])
              ELSE v[1]
        vy == IF "bottom" \in sides /\ v[2] < 0 THEN Scaled(Damping, v[2])
              ELSE IF "top" \in sides /\ v[2] > 0 THEN Scaled(Damping, v[2])
              ELSE v[2]
    IN  <<vx, vy>>

\* position_update
PositionUpdate(pos, v, dt) == <<pos[1] + OverTime(v[1], dt), pos[2] + OverTime(v[2], dt)>>

\* the system FixedUpdate runs next
Running == IF pc = 0 THEN "none" ELSE SystemChain[pc]

\* one whole fixed step in the order accel_env, accel_input, velocity_cap,
\* check_collisions, position_update, from body b
FixedStep(b, ks, map, dt) ==
    LET v1 == AccelEnv(b.velocity, dt)
        v2 == AccelInput(v1, ks, dt)
        v3 == VelocityCap(v2)
        v4 == CheckCollisions(b.position, v3, b.transform, map)
    IN  [b EXCEPT !.velocity = v4, !.position = PositionUpdate(b.position, v4, dt)]

Body == [position |-> position, velocity |-> velocity, transform |-> transform]

\* a system of the chain has run: the next one is due, or FixedUpdate is over
Chained ==
    /\ pc' = IF pc = Len(SystemChain) THEN 0 ELSE pc + 1
    /\ sim' = IF pc = Len(SystemChain) THEN FixedStep(sim, keys, tiles, timestep) ELSE sim
    /\ UNCHANGED <<tileVars, playerVars, result, occupied, keys, steps, presented, step_start, transform>>

\* the fixed main loop begins a run of FixedUpdate
BeginFixedUpdate ==
    /\ pc = 0
    /\ steps < MaxSteps
    /\ pc' = 1
    /\ steps' = steps + 1
    /\ step_start' = Body
    /\ UNCHANGED <<tileVars, playerVars, result, occupied, position, velocity, transform, keys, presented, sim>>

AccelEnvSystem ==
    /\ Running = "accel_env"
    /\ velocity' = AccelEnv(velocity, timestep)
    /\ UNCHANGED position
    /\ Chained

AccelInputSystem ==
    /\ Running = "accel_input"
    /\ velocity' = AccelInput(velocity, keys, timestep)
    /\ UNCHANGED position
    /\ Chained

VelocityCapSystem ==
    /\ Running = "velocity_cap"
    /\ velocity' = VelocityCap(velocity)
    /\ UNCHANGED position
    /\ Chained

CheckCollisionsSystem ==
    /\ Running = "check_collisions"
    /\ velocity' = CheckCollisions(position, velocity, transform, tiles)
    /\ UNCHANGED position
    /\ Chained

PositionUpdateSystem ==
    /\ Running = "position_update"
    /\ position' = PositionUpdate(position, velocity, timestep)
    /\ UNCHANGED velocity
    /\ Chained

\* the frame-start input update: the keys held change before the frame's
\* fixed steps, after the presentation that ended the frame before
KeyboardInput(ks) ==
    /\ pc = 0
    /\ presented # <<>> => presented[Len(presented)] = steps
    /\ ks # keys
    /\ keys' = ks
    /\ UNCHANGED <<tileVars, playerVars, result, occupied, position, velocity, transform, pc, steps,
                   presented, step_start, sim>>

\* Time<Fixed>::overstep: how far the frame is into the next fixed step
Oversteps == {timestep \div 2}

\* transform_update (physics.rs): move the body in screen space
TransformUpdate(overstep) ==
    /\ pc = 0
    /\ Len(presented) < MaxPresent
    /\ transform' = [transform EXCEPT !.translation =
                        <<position[1] + OverTime(velocity[1], overstep),
                          position[2] + OverTime(velocity[2], overstep)>>]
    /\ presented' = Append(presented, steps)
    /\ UNCHANGED <<tileVars, playerVars, result, occupied, position, velocity, keys, pc, steps, step_start, sim>>

\* Vec3::lerp, by the fraction s / dt
Lerp(a, b, s, dt) == a + TruncDiv((b - a) * s, dt)

\* player_visual_update (main.rs): extrapolate the body's place on screen
PlayerVisualUpdate(overstep) ==
    /\ pc = 0
    /\ Len(presented) < MaxPresent
    /\ LET dir == NormalizeOrZero(InputDirection(keys))
           acceleration ==
               <<TruncDiv(dir[1] * PLAYER_ACCEL * Unit, Milli) - Scaled(DRAG_FACTOR, velocity[1]),
                 (TruncDiv(dir[2] * PLAYER_ACCEL * Unit, Milli) + GRAVITY * Unit)
                     - Scaled(DRAG_FACTOR, velocity[2])>>
           future_position ==
               <<(OverTime(OverTime(acceleration[1], timestep), timestep) \div 2)
                     + OverTime(velocity[1], timestep) + position[1],
                 (OverTime(OverTime(acceleration[2], timestep), timestep) \div 2)
                     + OverTime(velocity[2], timestep) + position[2]>>
       IN  transform' = [transform EXCEPT !.translation =
               <<Lerp(@[1], future_position[1], overstep, timestep),
                 Lerp(@[2], future_position[2], overstep, timestep)>>]
    /\ presented' = Append(presented, steps)
    /\ UNCHANGED <<tileVars, playerVars, result, occupied, position, velocity, keys, pc, steps, step_start, sim>>

\* the bodies the simulation can hold: at rest on the ground, falling onto
\* it, flying over it at the speed limit
Bodies ==
    { [position |-> b[1], velocity |-> b[2],
       transform |-> [translation |-> b[1], scale |-> <<2 * Unit, 3 * Unit>>]] :
        b \in { << <<0, Unit + (Unit \div 2)>>, <<0, 0>> >>,
                << <<0, Unit>>, <<0 - 2 * Unit, 0 - 8 * Unit>> >>,
                << <<0, Unit + (Unit \div 2)>>, <<VELOCITY_MAX * Unit, 3 * Unit>> >> } }

\* the sets of keys the player holds
KeySets == { {}, {"KeyW", "KeyD"}, {"KeyS", "KeyA", "KeyD"} }

InitPhysics ==
    /\ timestep \in Timesteps
    /\ tiles = [c \in Coords |-> BuildTerrainTile(c[2])]
    /\ NoInteraction
    /\ NoPlayer
    /\ \E b \in Bodies :
           /\ position = b.position
           /\ velocity = b.velocity
           /\ transform = b.transform
           /\ step_start = b
           /\ sim = b
    /\ keys = {}
    /\ pc = 0
    /\ steps = 0
    /\ presented = <<>>
    /\ occupied = <<>>

NextPhysics ==
    \/ BeginFixedUpdate
    \/ AccelEnvSystem
    \/ AccelInputSystem
    \/ VelocityCapSystem
    \/ CheckCollisionsSystem
    \/ PositionUpdateSystem
    \/ \E ks \in KeySets : KeyboardInput(ks)
    \/ \E overstep \in Oversteps : TransformUpdate(overstep)
    \/ \E overstep \in Oversteps : PlayerVisualUpdate(overstep)

SpecPhysics == InitPhysics /\ [][NextPhysics]_vars

----------------------------------------------------------------------------
(* physics.rs: a body at the speed limit above the ground *)

\* bodies released just above the ground, falling at the speed limit or at a
\* third of it, straight down or at a slant
FastBodies ==
    { [position |-> <<0, ((3 * Unit) \div 2) + 1>>, velocity |-> v,
       transform |-> [translation |-> <<0, ((3 * Unit) \div 2) + 1>>,
                      scale |-> <<2 * Unit, 3 * Unit>>]] :
        v \in { <<0, 0 - VELOCITY_MAX * Unit>>,
                <<0, 0 - (VELOCITY_MAX \div 3) * Unit>>,
                <<Unit, 0 - VELOCITY_MAX * Unit>> } }

InitFast ==
    /\ timestep \in Timesteps
    /\ tiles = [c \in Coords |-> BuildTerrainTile(c[2])]
    /\ NoInteraction
    /\ NoPlayer
    /\ \E b \in FastBodies :
           /\ position = b.position
           /\ velocity = b.velocity
           /\ transform = b.transform
           /\ step_start = b
           /\ sim = b
    /\ keys = {}
    /\ pc = 0
    /\ steps = 0
    /\ presented = <<>>
    /\ occupied = <<>>

SpecFast == InitFast /\ [][NextPhysics]_vars

----------------------------------------------------------------------------
(* player.rs: the character controller, run once a frame in Update *)

\* pi, in milliradians
PiMilli == (355 * Milli) \div 113

\* milliradians
HIT_TOLERANCE_RADIANS == Milli \div 10
HORIZONTAL_ACCELERATION == 10
JUMP_VEL == 20

\* lib.rs: Gravity(Vec2::NEG_Y * 50.)
PlayerGravity == 50

\* a hit of the shape cast is modelled by hit.normal2.angle_to(Vector::Y), in
\* milliradians: normal2 is the normal on the player's own shape, so it points
\* straight down (angle pi) on flat ground and sideways (pi / 2) at a wall
\* what the shape cast can report: nothing, flat ground, ground just within
\* and just beyond the tolerance, a wall, a wall and flat ground
HitSets ==
    { {}, {PiMilli}, {PiMilli - (HIT_TOLERANCE_RADIANS \div 2)},
      {PiMilli - 2 * HIT_TOLERANCE_RADIANS}, {PiMilli \div 2}, {PiMilli \div 2, PiMilli} }

\* update_grounded: the closure of any(), -hit.normal2.angle_to(Vector::Y).abs()
\* < HIT_TOLERANCE_RADIANS; the method calls bind before the unary minus
Grounding(hit) == (0 - Abs(hit)) < HIT_TOLERANCE_RADIANS

\* the keys the player can hold in a frame
KeyCodeSets == { {}, {"KeyW"}, {"Space", "KeyD"}, {"KeyA"} }

\* Time::delta_secs of a frame, microseconds
FrameDeltas == { 25 * Milli, 50 * Milli }

\* what the physics engine can have made of the LinearVelocity since the last
\* frame: nothing, a landing, a tenth of a second of gravity
EngineOutcomes(v) ==
    { v, <<v[1], 0>>, <<v[1], v[2] - ((PlayerGravity * Unit) \div 10)>> }

\* a frame begins: the input update and the physics engine have run
BeginFrame(ks, hits, v) ==
    /\ upc = 0
    /\ frames < MaxFrames
    /\ frames' = frames + 1
    /\ keyboard' = [pressed |-> ks, just_pressed |-> ks \ keyboard.pressed]
    /\ caster_hits' = hits
    /\ player_vel' = v
    /\ upc' = 1
    /\ UNCHANGED <<tileVars, physVars, occupied, result, grounded, inventory>>

\* update_grounded
UpdateGrounded ==
    /\ upc = 1
    /\ grounded' = (\E hit \in caster_hits : Grounding(hit))
    /\ upc' = 2
    /\ UNCHANGED <<tileVars, physVars, occupied, result, caster_hits, player_vel,
                   keyboard, frames, inventory>>

\* keyboard_input: whether the jump is applied
Jumps(kb, player_grounded) ==
    player_grounded /\ kb.pressed \cap {"KeyW", "Space"} # {}

\* keyboard_input
PlayerKeyboardInput(delta) ==
    /\ upc = 2
    /\ LET left == IF "KeyA" \in keyboard.pressed THEN 1 ELSE 0
           right == IF "KeyD" \in keyboard.pressed THEN 1 ELSE 0
           x == player_vel[1]
                    + OverTime(HORIZONTAL_ACCELERATION * Unit * (right - left), delta)
       IN  player_vel' = <<x, IF Jumps(keyboard, grounded)
                              THEN JUMP_VEL * Unit ELSE player_vel[2]>>
    /\ upc' = 0
    /\ UNCHANGED <<tileVars, physVars, occupied, result, caster_hits, grounded,
                   keyboard, frames, inventory>>

InitPlayer ==
    /\ timestep \in Timesteps
    /\ tiles = [c \in Coords |-> BuildTerrainTile(c[2])]
    /\ NoInteraction
    /\ NoBody
    /\ NoPlayer

NextPlayer ==
    \/ \E ks \in KeyCodeSets, hits \in HitSets :
           \E v \in EngineOutcomes(player_vel) : BeginFrame(ks, hits, v)
    \/ UpdateGrounded
    \/ \E delta \in FrameDeltas : PlayerKeyboardInput(delta)

SpecPlayer == InitPlayer /\ [][NextPlayer]_vars

----------------------------------------------------------------------------
(* physics.rs, main.rs: the side of a contact *)

\* Aabb2d::new(center, half_size)
Aabb2d(center, half_size) == [center |-> center, half_size |-> half_size]

\* Aabb2d::intersects: the boxes share a point, edges included
Intersects(a, b) ==
    /\ a.center[1] - a.half_size[1] <= b.center[1] + b.half_size[1]
    /\ a.center[1] + a.half_size[1] >= b.center[1] - b.half_size[1]
    /\ a.center[2] - a.half_size[2] <= b.center[2] + b.half_size[2]
    /\ a.center[2] + a.half_size[2] >= b.center[2] - b.half_size[2]

\* get_collision: the Option<Collision> for source against target
GetCollision(source, target) ==
    LET closest == ClosestPoint(target.center, target.half_size, source.center)
        offset == <<source.center[1] - closest[1], source.center[2] - closest[2]>>
        margin == <<Abs(offset[1]) - source.half_size[1],
                    Abs(offset[2]) - source.half_size[2]>>
        size == source.half_size
    IN  IF ~Intersects(source, target) THEN <<>>
        ELSE IF margin[1] > 0 \/ margin[2] > 0 THEN <<>>
        \* offset.x.abs() > offset.y.abs() / (size.y / size.x)
        ELSE IF Abs(offset[1]) * size[2] > Abs(offset[2]) * size[1]
             THEN IF offset[1] < 0 THEN <<"right">> ELSE <<"left">>
             ELSE IF offset[2] < 0 THEN <<"top">> ELSE <<"bottom">>

\* PlayerCollision::collision_side (main.rs), with PLAYER_HEIGHT and
\* PLAYER_WIDTH the sizes of the player's box
CollisionSide(player, block) ==
    LET height_diff == (2 * player.half_size[2] - 2 * player.half_size[1]) \div 2
        closest == ClosestPoint(block.center, block.half_size, player.center)
        offset == <<player.center[1] - closest[1], player.center[2] - closest[2]>>
    IN  IF Abs(offset[1]) > Abs(offset[2]) - height_diff
        THEN IF offset[1] < 0 THEN "right" ELSE "left"
        ELSE IF offset[2] < 0 THEN "top" ELSE "bottom"

\* the box of the body and the box of tile c
BodyBox == Aabb2d(position, <<transform.scale[1] \div 2, transform.scale[2] \div 2>>)
TileBox(c) ==
    Aabb2d(TileTransform(c).translation,
           <<TileTransform(c).scale[1] \div 2, TileTransform(c).scale[2] \div 2>>)

\* the one solid tile of the contact scenarios
LoneTile == <<0, top_edge>>

\* check_collisions classifies the body against the lone tile
CheckCollisionsCall ==
    /\ result = <<>>
    /\ result' = <<[by |-> "check_collisions",
                    side |-> ContactSide(position, transform, LoneTile, tiles)]>>
    /\ UNCHANGED <<tileVars, physVars, occupied, playerVars>>

\* get_collision classifies the body against the lone tile
GetCollisionCall ==
    /\ result = <<>>
    /\ result' = <<[by |-> "get_collision",
                    side |-> LET got == GetCollision(BodyBox, TileBox(LoneTile))
                             IN  IF got = <<>> THEN "none" ELSE got[1]]>>
    /\ UNCHANGED <<tileVars, physVars, occupied, playerVars>>

\* player_collision (main.rs) classifies the body against the lone tile
CollisionSideCall ==
    /\ result = <<>>
    /\ result' = <<[by |-> "collision_side",
                    side |-> IF Intersects(TileBox(LoneTile), BodyBox)
                             THEN CollisionSide(BodyBox, TileBox(LoneTile))
                             ELSE "none"]>>
    /\ UNCHANGED <<tileVars, physVars, occupied, playerVars>>

\* how far into the tile a body can be when the contact is classified: from
\* touching to half a tile deep
Depths == 0 .. (Unit \div 2)

\* the centres of a 2 x 3 body that has come straight down, up, from the left
\* or from the right onto the lone tile
Approaches ==
    LET t == TileBox(LoneTile)
        hx == (2 * Unit) \div 2
        hy == (3 * Unit) \div 2
        xs == (t.center[1] - t.half_size[1]) .. (t.center[1] + t.half_size[1])
        ys == (t.center[2] - t.half_size[2]) .. (t.center[2] + t.half_size[2])
    IN  [above |-> { <<x, t.center[2] + t.half_size[2] + hy - d>> : x \in xs, d \in Depths },
         below |-> { <<x, t.center[2] - t.half_size[2] - hy + d>> : x \in xs, d \in Depths },
         left  |-> { <<t.center[1] - t.half_size[1] - hx + d, y>> : y \in ys, d \in Depths },
         right |-> { <<t.center[1] + t.half_size[1] + hx - d, y>> : y \in ys, d \in Depths }]

InitContact ==
    /\ timestep \in Timesteps
    /\ tiles = [c \in Coords |-> IF c = LoneTile THEN BuildTerrainTile(0) ELSE TileDataDefault]
    /\ NoInteraction
    /\ NoPlayer
    /\ \E from \in DOMAIN Approaches : position \in Approaches[from]
    /\ velocity = <<0, 0>>
    /\ transform = [translation |-> position, scale |-> <<2 * Unit, 3 * Unit>>]
    /\ keys = {}
    /\ pc = 0
    /\ steps = 0
    /\ presented = <<>>
    /\ step_start = BodyDefault
    /\ sim = BodyDefault
    /\ occupied = <<>>

NextContact ==
    \/ CheckCollisionsCall
    \/ GetCollisionCall
    \/ CollisionSideCall

SpecContact == InitContact /\ [][NextContact]_vars

----------------------------------------------------------------------------
(* terrain.rs: GameMap::tile_under *)

\* world-space points on and between the grid lines, from half a tile outside
\* the map on every side
WorldPoints ==
    { <<x, y>> : x \in ((left_edge * Unit) - (Unit \div 2)) .. (((right_edge + 1) * Unit) + (Unit \div 2)),
                 y \in (((bottom_edge - 1) * Unit) - (Unit \div 2)) .. ((top_edge * Unit) + (Unit \div 2)) }

\* a caller asks for the tile under a point
TileUnderCall(world_space) ==
    /\ result = <<>>
    /\ result' = <<[world_space |-> world_space, tile |-> TileUnder(world_space)]>>
    /\ UNCHANGED <<tileVars, physVars, occupied, playerVars>>

NextTileUnder == \E world_space \in WorldPoints : TileUnderCall(world_space)

SpecTileUnder == InitTiles /\ [][NextTileUnder]_vars

----------------------------------------------------------------------------
(* terrain/generation.rs: rasterize_canvas and GameMap::from_world *)

\* MapParameters::default, for a map_width
MapParameters(width) ==
    [map_width |-> width,
     right_edge |-> width \div 2,
     left_edge |-> (0 - (width \div 2)) - 1,
     top_edge |-> top_edge,
     bottom_edge |-> bottom_edge,
     dirt_thickness |-> dirt_thickness]

\* i16 division, which rounds toward zero
I16Div(a, b) ==
    IF (a >= 0) = (b > 0) THEN Abs(a) \div Abs(b) ELSE 0 - (Abs(a) \div Abs(b))

\* HillParameters::height_at
HeightAt(hill, x) ==
    LET dist_from_center == Abs(hill.x - x)
        height_raw == hill.height - I16Div(hill.height * dist_from_center, hill.width)
    IN  Clamp(height_raw, 0, hill.height - 1)

\* rasterize_canvas: what the hills add to the level at x
RECURSIVE HillsAt(_, _)
HillsAt(hills, x) ==
    IF hills = <<>> THEN 0 ELSE HeightAt(Head(hills), x) + HillsAt(Tail(hills), x)

\* rasterize_canvas: the element the k-th pop_front().unwrap_or_default() gives
PopFront(offsets, k) == IF k <= Len(offsets) THEN offsets[k] ELSE 0

\* rasterize_canvas: the level of the grass block of column x
LevelAt(params, offsets, hills, x) ==
    PopFront(offsets, (x - params.left_edge) + 1) + HillsAt(hills, x)

\* the rows rasterize_canvas can write to
RasterRows ==
    (bottom_edge - (offsets_shift_limit + dirt_thickness))
        .. (offsets_shift_limit + MaxHillRise)

\* rasterize_canvas: Err, or Ok with the HashMap of baked tiles
RasterizeCanvas(params, offsets, hills) ==
    IF Len(offsets) < params.map_width
    THEN [ok |-> FALSE, map_data |-> <<>>]
    ELSE LET level(x) == LevelAt(params, offsets, hills, x)
             baked == { c \in (params.left_edge .. params.right_edge) \X RasterRows :
                            RasterizeCanvasTile(level(c[1]), c[2]) # <<>> }
         IN  [ok |-> TRUE,
              map_data |-> [c \in baked |-> RasterizeCanvasTile(level(c[1]), c[2])[1]]]

\* GameMap::from_world: a panic from expect(), or the GameMap with the
\* TileData of the entity spawned for every coordinate
FromWorld(params, offsets, hills) ==
    LET tile_data == RasterizeCanvas(params, offsets, hills)
    IN  IF ~tile_data.ok
        THEN [panic |-> TRUE, game_map |-> <<>>]
        ELSE [panic |-> FALSE,
              game_map |->
                  [c \in (params.left_edge .. params.right_edge)
                             \X (params.bottom_edge .. params.top_edge) |->
                      IF c \in DOMAIN tile_data.map_data
                      THEN tile_data.map_data[c] ELSE TileDataDefault]]

\* the values of the offsets handed to rasterize_canvas
OffsetValues == {0 - 1, 1}

\* every offsets queue of a length
RECURSIVE OffsetQueues(_)
OffsetQueues(n) ==
    IF n = 0 THEN {<<>>}
    ELSE { Append(q, v) : q \in OffsetQueues(n - 1), v \in OffsetValues }

\* the hills handed to rasterize_canvas: none, or one in the middle of the map
HillLists == { <<>>, <<[x |-> 0, height |-> MaxHillRise + 1, width |-> 2]>> }

\* the world is built from the offsets and hills generated for a map_width
FromWorldCall(width, offsets, hills) ==
    /\ result = <<>>
    /\ result' = <<[map_width |-> width, offsets |-> offsets, hills |-> hills,
                    world |-> FromWorld(MapParameters(width), offsets, hills)]>>
    /\ UNCHANGED <<tileVars, physVars, occupied, playerVars>>

InitRaster ==
    /\ timestep \in Timesteps
    /\ tiles = [c \in Coords |-> BuildTerrainTile(c[2])]
    /\ NoInteraction
    /\ NoPlayer
    /\ NoBody

NextRaster ==
    \E width \in 0 .. MaxRasterWidth, hills \in HillLists :
        \E n \in 0 .. (width + 3) :
            \E offsets \in OffsetQueues(n) : FromWorldCall(width, offsets, hills)

SpecRaster == InitRaster /\ [][NextRaster]_vars

----------------------------------------------------------------------------
(* physics.rs: tiles_occupied *)

\* tiles_occupied: the pair of half-open ranges a..b of Rust, as sets
TilesOccupied(mover, tr) ==
    LET top_right == <<mover.position[1] + (tr.scale[1] \div 2),
                       mover.position[2] + (tr.scale[2] \div 2)>>
        bottom_left == <<mover.position[1] - (tr.scale[1] \div 2),
                         mover.position[2] - (tr.scale[2] \div 2)>>
    IN  [x |-> FloorTo(bottom_left[1]) .. (FloorTo(top_right[1]) - 1),
         y |-> CeilTo(bottom_left[2]) .. (CeilTo(top_right[2]) - 1)]

\* a caller asks for the tiles the body occupies
TilesOccupiedCall ==
    /\ occupied = <<>>
    /\ occupied' = <<TilesOccupied(Body, transform)>>
    /\ UNCHANGED <<tileVars, physVars, playerVars, result>>

\* body centres on and off the grid lines, within one tile of the origin
RangeCenters ==
    { <<x, y>> : x \in (0 - Unit)..Unit, y \in {0, Unit \div 2, Unit + (Unit \div 2)} }

\* body sizes: one tile, the player's 2 x 3, and one and a half tiles wide
RangeScales == { <<Unit, Unit>>, <<2 * Unit, 3 * Unit>>, <<Unit + (Unit \div 2), Unit>> }

InitRange ==
    /\ timestep \in Timesteps
    /\ tiles = [c \in Coords |-> BuildTerrainTile(c[2])]
    /\ NoInteraction
    /\ NoPlayer
    /\ position \in RangeCenters
    /\ velocity = <<0, 0>>
    /\ \E s \in RangeScales : transform = [translation |-> position, scale |-> s]
    /\ keys = {}
    /\ pc = 0
    /\ steps = 0
    /\ presented = <<>>
    /\ step_start = BodyDefault
    /\ sim = BodyDefault
    /\ occupied = <<>>

NextRange == TilesOccupiedCall

SpecRange == InitRange /\ [][NextRange]_vars

----------------------------------------------------------------------------
(* physics.rs: velocity_cap on its own *)

\* speeds along one axis: at rest, slow, just under, at and just over the
\* limit, and well over it
CapSpeeds ==
    {0, 1, Unit, (VELOCITY_MAX * Unit) \div 2, (VELOCITY_MAX * Unit) - 1,
     VELOCITY_MAX * Unit, (VELOCITY_MAX * Unit) + 1, 2 * VELOCITY_MAX * Unit}

CapVelocities ==
    { <<sx * x, sy * y>> : sx \in {0 - 1, 1}, sy \in {0 - 1, 1},
                           x \in CapSpeeds, y \in CapSpeeds }

\* one run of velocity_cap over the body; result keeps the velocity each run
\* found
VelocityCapRun ==
    /\ Len(result) < MaxCapRuns
    /\ velocity' = VelocityCap(velocity)
    /\ result' = Append(result, velocity)
    /\ UNCHANGED <<tileVars, position, transform, keys, pc, steps, presented,
                   step_start, sim, occupied, caster_hits, grounded,
                   player_vel, keyboard, upc, frames, inventory>>

InitCap ==
    /\ timestep \in Timesteps
    /\ tiles = [c \in Coords |-> BuildTerrainTile(c[2])]
    /\ NoInteraction
    /\ NoPlayer
    /\ position = BodyDefault.position
    /\ velocity \in CapVelocities
    /\ transform = BodyDefault.transform
    /\ keys = {}
    /\ pc = 0
    /\ steps = 0
    /\ presented = <<>>
    /\ step_start = BodyDefault
    /\ sim = BodyDefault
    /\ occupied = <<>>

NextCap == VelocityCapRun

SpecCap == InitCap /\ [][NextCap]_vars

----------------------------------------------------------------------------
(* inventory.rs, player.rs: handle_item_pickups *)

\* ui.rs: the buttons of the toolbar
TOOLBAR_BUTTONS == 5

\* Inventory::default(): five slots, all None
InventoryDefault == [i \in 1..5 |-> <<>>]

\* the item ids of the events and stacks considered
ItemIds == {1, 2}

ItemStack(id, n) == [count |-> n, item_id |-> id]

\* no stack is ever found for an item
MatchingSlots_None(inv, id) == {}
\* the slots (1-based) holding a stack of the item
MatchingSlots(inv, id) ==
    { i \in 1..Len(inv) : inv[i] # <<>> /\ inv[i][1].item_id = id }

EmptySlots(inv) == { i \in 1..Len(inv) : inv[i] = <<>> }

First(S) == CHOOSE i \in S : \A j \in S : i <= j

\* inventory.rs handle_item_pickups: the loop over events.read().  An event
\* that finds a stack of its item adds one to it and leaves the loop over the
\* events (break 'event); an event that finds none goes to the first empty
\* slot, if any, and the loop goes on.  The events the iterator did not yield
\* stay unread.
RECURSIVE HandleItemPickups(_, _, _)
HandleItemPickups(inv, events, toolbar_events) ==
    IF events = <<>>
    THEN [inventory |-> inv, unread |-> events, toolbar_events |-> toolbar_events]
    ELSE LET event == Head(events)
             stacks == MatchingSlots(inv, event)
             empty == EmptySlots(inv)
         IN  IF stacks # {}
             THEN LET i == First(stacks)
                      put == [inv EXCEPT ![i] =
                                 <<ItemStack(inv[i][1].item_id, inv[i][1].count + 1)>>]
                  IN  [inventory |-> put,
                       unread |-> Tail(events),
                       toolbar_events |->
                           IF i - 1 >= TOOLBAR_BUTTONS THEN toolbar_events
                           ELSE Append(toolbar_events, [stack |-> put[i], slot |-> i - 1])]
             ELSE IF empty # {}
             THEN LET i == First(empty)
                      put == [inv EXCEPT ![i] = <<ItemStack(event, 1)>>]
                  IN  IF i - 1 >= TOOLBAR_BUTTONS
                      THEN [inventory |-> put, unread |-> Tail(events),
                            toolbar_events |-> toolbar_events]
                      ELSE HandleItemPickups(put, Tail(events),
                               Append(toolbar_events, [stack |-> put[i], slot |-> i - 1]))
             ELSE HandleItemPickups(inv, Tail(events), toolbar_events)

\* player.rs handle_item_pickups: the same loop without the toolbar; an event
\* that finds a stack of its item adds one to it and returns
RECURSIVE PlayerHandleItemPickups(_, _)
PlayerHandleItemPickups(inv, events) ==
    IF events = <<>>
    THEN [inventory |-> inv, unread |-> events, toolbar_events |-> <<>>]
    ELSE LET event == Head(events)
             stacks == MatchingSlots(inv, event)
             empty == EmptySlots(inv)
         IN  IF stacks # {}
             THEN LET i == First(stacks)
                  IN  [inventory |-> [inv EXCEPT ![i] =
                           <<ItemStack(inv[i][1].item_id, inv[i][1].count + 1)>>],
                       unread |-> Tail(events),
                       toolbar_events |-> <<>>]
             ELSE IF empty # {}
             THEN PlayerHandleItemPickups(
                      [inv EXCEPT ![First(empty)] = <<ItemStack(event, 1)>>],
                      Tail(events))
             ELSE PlayerHandleItemPickups(inv, Tail(events))

\* one run of a handler with events pending: result keeps what the run found
\* and the toolbar updates it wrote, item_events what it left unread
Ran(system, out) ==
    /\ inventory' = out.inventory
    /\ item_events' = out.unread
    /\ result' = <<[system |-> system, inventory |-> inventory,
                    events |-> item_events, toolbar_events |-> out.toolbar_events]>>
    /\ UNCHANGED <<timestep, tiles, break_timer, collider, pending, last_obs,
                   held, hold, last_destroy, physVars, occupied, caster_hits,
                   grounded, player_vel, keyboard, upc, frames>>

HandleItemPickupsRun ==
    /\ item_events # <<>>
    /\ \A k \in 1..Len(result) : result[k].system = "inventory"
    /\ Ran("inventory", HandleItemPickups(inventory, item_events, <<>>))

PlayerHandleItemPickupsRun ==
    /\ item_events # <<>>
    /\ \A k \in 1..Len(result) : result[k].system = "player"
    /\ Ran("player", PlayerHandleItemPickups(inventory, item_events))

\* the events pending for the handler: up to MaxPickups of them
RECURSIVE PickupEvents(_)
PickupEvents(n) ==
    IF n = 0 THEN {<<>>}
    ELSE PickupEvents(n - 1) \cup
         { Append(s, id) : s \in { q \in PickupEvents(n - 1) : Len(q) = n - 1 },
                           id \in ItemIds }

\* the inventories the handler may find: each slot empty or holding one item
Inventories ==
    [1..Len(InventoryDefault) -> {<<>>} \cup { <<ItemStack(id, 1)>> : id \in ItemIds }]

InitInventory ==
    /\ timestep \in Timesteps
    /\ tiles = [c \in Coords |-> BuildTerrainTile(c[2])]
    /\ break_timer = [c \in Coords |-> <<>>]
    /\ collider = [c \in Coords |-> tiles[c].solid]
    /\ item_events \in PickupEvents(MaxPickups)
    /\ pending = <<>>
    /\ last_obs = NoObs
    /\ held = [c \in Coords |-> 0]
    /\ hold = NoHold
    /\ last_destroy = <<>>
    /\ NoBody
    /\ caster_hits = {}
    /\ grounded = FALSE
    /\ player_vel = <<0, 0>>
    /\ keyboard = [pressed |-> {}, just_pressed |-> {}]
    /\ upc = 0
    /\ frames = 0
    /\ inventory \in Inventories
    /\ result = <<>>

NextInventory == HandleItemPickupsRun \/ PlayerHandleItemPickupsRun

SpecInventory == InitInventory /\ [][NextInventory]_vars

----------------------------------------------------------------------------
(* physics.rs: a body let go above one solid tile, at the engine's default  *)
(* fixed timestep.  The creep of a body resting in contact is a few         *)
(* thousandths of a world unit a step, so lengths here are counted in       *)
(* 1 / Fine of a world unit and a fixed step lasts 1 / FixedHz seconds.     *)

\* fixed-point resolution of this section: units per world unit
Fine == 2 ^ 16

\* Time<Fixed>: the app never sets a timestep, so FixedUpdate runs at the
\* engine's default of 64 Hz
FixedHz == 64

\* a * delta_secs
PerStep(a) == TruncDiv(a, FixedHz)

\* accel_env
AccelEnvFine(v) ==
    LET drag_impulse == <<PerStep(Scaled(DRAG_FACTOR, v[1])),
                          PerStep(Scaled(DRAG_FACTOR, v[2]))>>
        grav_impulse == PerStep(GRAVITY * Fine)
    IN  <<v[1] + drag_impulse[1], v[2] + drag_impulse[2] + grav_impulse>>

\* accel_input
AccelInputFine(v, ks) ==
    LET n == NormalizeOrZero(InputDirection(ks))
    IN  <<v[1] + TruncDiv(n[1] * PLAYER_ACCEL * (Fine \div FixedHz), Milli),
          v[2] + TruncDiv(n[2] * PLAYER_ACCEL * (Fine \div FixedHz), Milli)>>

\* a length in 1 / 2^6 of a world unit, where its square fits the integers
Coarse(a) == TruncDiv(a, 2 ^ 10)

\* velocity_cap
VelocityCapFine(v) ==
    LET len == Isqrt(LengthSquared(<<Coarse(v[1]), Coarse(v[2])>>))
        max == Coarse(VELOCITY_MAX * Fine)
    IN  IF len < max THEN v
        ELSE IF len = max THEN v
        ELSE <<TruncDiv(max * Coarse(v[1]), len) * (2 ^ 10),
               TruncDiv(max * Coarse(v[2]), len) * (2 ^ 10)>>

\* occupied_tile_range
OccupiedTileRangeFine(center, size) ==
    [lo |-> <<(center[1] - (size[1] \div 2)) \div Fine,
              (center[2] - (size[2] \div 2)) \div Fine>>,
     hi |-> <<0 - ((0 - (center[1] + (size[1] \div 2))) \div Fine),
              0 - ((0 - (center[2] + (size[2] \div 2))) \div Fine)>>]

\* the Transform a tile is spawned with: translation (x + 0.5, y - 0.5), scale 1
TileTransformFine(c) ==
    [translation |-> <<c[1] * Fine + (Fine \div 2), c[2] * Fine - (Fine \div 2)>>,
     scale |-> <<Fine, Fine>>]

\* check_collisions: the offset of the body from a tile's box
TileOffsetFine(pos, c) ==
    LET tt == TileTransformFine(c)
        closest == ClosestPoint(tt.translation,
                                <<tt.scale[1] \div 2, tt.scale[2] \div 2>>, pos)
    IN  <<pos[1] - closest[1], pos[2] - closest[2]>>

\* the side named after the face of the tile instead of the edge of the body
ContactSideFine_TileFace(pos, tr, c, map) ==
    LET offset == TileOffsetFine(BodyCenter(pos, tr), c)
        height_diff == (tr.scale[2] - tr.scale[1]) \div 2
    IN  IF ~map[c].solid THEN "none"
        ELSE IF Abs(offset[1]) > tr.scale[1] \div 2 THEN "none"
        ELSE IF Abs(offset[2]) > tr.scale[2] \div 2 THEN "none"
        ELSE IF Abs(offset[1]) > Abs(offset[2]) - height_diff
             THEN IF offset[1] < 0 THEN "left" ELSE "right"
             ELSE IF offset[2] < 0 THEN "bottom" ELSE "top"
\* check_collisions: the side of the body a solid tile touches, or "none"
ContactSideFine(pos, tr, c, map) ==
    LET offset == TileOffsetFine(BodyCenter(pos, tr), c)
        height_diff == (tr.scale[2] - tr.scale[1]) \div 2
    IN  IF ~map[c].solid THEN "none"
        ELSE IF Abs(offset[1]) > tr.scale[1] \div 2 THEN "none"
        ELSE IF Abs(offset[2]) > tr.scale[2] \div 2 THEN "none"
        ELSE IF Abs(offset[1]) > Abs(offset[2]) - height_diff
             THEN IF offset[1] < 0 THEN "right" ELSE "left"
             ELSE IF offset[2] < 0 THEN "top" ELSE "bottom"

\* check_collisions: the edges of the body that collide with something
ContactsFine(pos, tr, map) ==
    { ContactSideFine(pos, tr, c, map) :
        c \in GetRegionTiles(OccupiedTileRangeFine(BodyCenter(pos, tr), tr.scale)) }
        \ {"none"}

\* check_collisions: the velocity after the edge conditions
CheckCollisionsFine(pos, v, tr, map) ==
    LET sides == ContactsFine(pos, tr, map)
        vx == IF "left" \in sides /\ v[1] < 0 THEN Scaled(Damping, v[1])
              ELSE IF "right" \in sides /\ v[1] > 0 THEN Scaled(Damping, v[1])
              ELSE v[1]
        vy == IF "bottom" \in sides /\ v[2] < 0 THEN Scaled(Damping, v[2])
              ELSE IF "top" \in sides /\ v[2] > 0 THEN Scaled(Damping, v[2])
              ELSE v[2]
    IN  <<vx, vy>>

\* position_update
PositionUpdateFine(pos, v) == <<pos[1] + PerStep(v[1]), pos[2] + PerStep(v[2])>>

\* the top edge of the lone tile, and the bottom edge of the body
TileTopFine == TileTransformFine(LoneTile).translation[2] + (Fine \div 2)
BottomEdge == position[2] - (transform.scale[2] \div 2)

\* the part of the world the body is followed in: from four tiles under the
\* lone tile to fifty above it
InScene ==
    /\ BottomEdge >= TileTopFine - (4 * Fine)
    /\ BottomEdge <= TileTopFine + (50 * Fine)

\* one run of FixedUpdate over the body: accel_env, accel_input,
\* velocity_cap, check_collisions and position_update, each taking the
\* velocity the system before it left
FixedUpdateRest ==
    /\ InScene
    /\ \E v1 \in {AccelEnvFine(velocity)} :
       \E v2 \in {AccelInputFine(v1, keys)} :
       \E v3 \in {VelocityCapFine(v2)} :
       \E v4 \in {CheckCollisionsFine(position, v3, transform, tiles)} :
           /\ velocity' = v4
           /\ position' = PositionUpdateFine(position, v4)
    /\ UNCHANGED <<tileVars, transform, keys, pc, steps, presented, step_start,
                   sim, occupied, playerVars, result>>

\* how far above the tile the body's bottom edge is let go: half a tile, one
\* tile, three tiles, the 8.5 of a body let go at (0, 10), and forty tiles,
\* most of the height of the generated world
DropHeights == {Fine \div 2, Fine, 3 * Fine, (17 * Fine) \div 2, 40 * Fine}

\* where over the tile the body's centre is: its left edge, its middle, its
\* right edge
DropColumns ==
    LET x == TileTransformFine(LoneTile).translation[1]
    IN  {x - (Fine \div 2), x, x + (Fine \div 2)}

InitRest ==
    /\ timestep = Micro \div FixedHz
    /\ tiles = [c \in Coords |-> IF c = LoneTile THEN BuildTerrainTile(0) ELSE TileDataDefault]
    /\ NoInteraction
    /\ NoPlayer
    /\ \E x \in DropColumns, h \in DropHeights :
           position = <<x, TileTopFine + ((3 * Fine) \div 2) + h>>
    /\ velocity = <<0, 0>>
    /\ transform = [translation |-> position, scale |-> <<2 * Fine, 3 * Fine>>]
    /\ keys = {}
    /\ pc = 0
    /\ steps = 0
    /\ presented = <<>>
    /\ step_start = BodyDefault
    /\ sim = BodyDefault
    /\ occupied = <<>>

NextRest == FixedUpdateRest

\* the fixed main loop runs FixedUpdate again and again while the app runs
SpecRest == InitRest /\ [][NextRest]_vars /\ WF_vars(NextRest)

----------------------------------------------------------------------------
(* physics.rs: check_collisions on its own *)

\* one run of check_collisions over the body; result keeps the body it found
CheckCollisionsRun ==
    /\ result = <<>>
    /\ velocity' = CheckCollisions(position, velocity, transform, tiles)
    /\ result' = <<[position |-> position, velocity |-> velocity]>>
    /\ UNCHANGED <<tileVars, position, transform, keys, pc, steps, presented,
                   step_start, sim, occupied, playerVars>>

\* body centres on a half-tile grid around the tiles of the map
CollidePositions ==
    { <<(x * Unit) \div 2, (top_edge * Unit) + ((y * Unit) \div 2)>> :
        x \in (0 - 4)..4, y \in (0 - 4)..4 }

\* velocities towards every side, at rest along either axis
CollideVelocities ==
    { <<sx * 3 * Unit, sy * 7 * Unit>> : sx \in {0 - 1, 0, 1}, sy \in {0 - 1, 0, 1} }

\* body sizes: one tile, and the player's 2 x 3
CollideScales == { <<Unit, Unit>>, <<2 * Unit, 3 * Unit>> }

InitCollide ==
    /\ timestep \in Timesteps
    /\ \E solid \in SUBSET Coords :
           tiles = [c \in Coords |-> IF c \in solid THEN BuildTerrainTile(0)
                                     ELSE TileData(0, 1, FALSE)]
    /\ NoInteraction
    /\ NoPlayer
    /\ position \in CollidePositions
    /\ velocity \in CollideVelocities
    /\ \E s \in CollideScales : transform = [translation |-> position, scale |-> s]
    /\ keys = {}
    /\ pc = 0
    /\ steps = 0
    /\ presented = <<>>
    /\ step_start = BodyDefault
    /\ sim = BodyDefault
    /\ occupied = <<>>

NextCollide == CheckCollisionsRun

SpecCollide == InitCollide /\ [][NextCollide]_vars

----------------------------------------------------------------------------
(* main.rs: player_collision *)

\* the blocks that may stand around the player: a wall to its left and to
\* its right, a floor under it and a ceiling over it, each one block touching
\* the player's box
BlockCentres ==
    LET half == Unit \div 2
        hx == transform.scale[1] \div 2
        hy == transform.scale[2] \div 2
    IN  { <<position[1] - hx - half, position[2]>>,
          <<position[1] + hx + half, position[2]>>,
          <<position[1] + half, position[2] - hy - half>>,
          <<position[1] + half, position[2] + hy + half>> }

BlockBox(centre) == Aabb2d(centre, <<Unit \div 2, Unit \div 2>>)

\* player_collision: the blocks within half the player's diagonal plus one
\* block of the player
NearbyBlocks(pos, scale, centres) ==
    LET critical_distance == (Isqrt(LengthSquared(scale)) \div 2) + Unit
    IN  { b \in centres :
            LengthSquared(<<pos[1] - b[1], pos[2] - b[2]>>)
                < critical_distance * critical_distance }

\* player_collision: what one intersecting block does to the velocity
BlockResponse(v, player, block) ==
    IF ~Intersects(block, player) THEN v
    ELSE LET side == CollisionSide(player, block)
         IN  IF side = "left" THEN (IF v[1] < 0 THEN <<Scaled(<<-1, 2>>, v[1]), v[2]>> ELSE v)
             ELSE IF side = "right" THEN (IF v[1] > 0 THEN <<Scaled(<<-1, 2>>, v[1]), v[2]>> ELSE v)
             ELSE IF side = "top" THEN (IF v[2] > 0 THEN <<v[1], Scaled(<<-1, 10>>, v[2])>> ELSE v)
             ELSE (IF v[2] < 0 THEN <<v[1], Scaled(<<-4, 10>>, v[2])>> ELSE v)

\* player_collision: the loop over nearby_blocks, in the order the query
\* yielded them
RECURSIVE PlayerCollision(_, _, _)
PlayerCollision(v, player, order) ==
    IF order = <<>> THEN v
    ELSE PlayerCollision(BlockResponse(v, player, BlockBox(Head(order))), player,
                         Tail(order))

\* the orders a query may yield the blocks in
VisitOrders(blocks) ==
    { o \in [1..Cardinality(blocks) -> blocks] :
        \A i, j \in 1..Cardinality(blocks) : o[i] = o[j] => i = j }

\* one run of player_collision with some blocks around the player, visited
\* in some order; result keeps the velocity and the order
PlayerCollisionRun ==
    /\ result = <<>>
    /\ \E blocks \in SUBSET BlockCentres :
       \E order \in VisitOrders(NearbyBlocks(position, transform.scale, blocks)) :
           /\ velocity' = PlayerCollision(velocity, BodyBox, order)
           /\ result' = <<[velocity |-> velocity, order |-> order]>>
    /\ UNCHANGED <<tileVars, position, transform, keys, pc, steps, presented,
                   step_start, sim, occupied, playerVars>>

\* velocities towards every side, at rest along either axis
PlayerVelocities ==
    { <<sx * 10 * Unit, sy * 10 * Unit>> : sx \in {0 - 1, 0, 1}, sy \in {0 - 1, 0, 1} }

InitBlocks ==
    /\ timestep \in Timesteps
    /\ tiles = [c \in Coords |-> BuildTerrainTile(c[2])]
    /\ NoInteraction
    /\ NoPlayer
    /\ position = <<0, 3 * Unit>>
    /\ velocity \in PlayerVelocities
    /\ transform = [translation |-> position, scale |-> <<2 * Unit, 3 * Unit>>]
    /\ keys = {}
    /\ pc = 0
    /\ steps = 0
    /\ presented = <<>>
    /\ step_start = BodyDefault
    /\ sim = BodyDefault
    /\ occupied = <<>>

NextBlocks == PlayerCollisionRun

SpecBlocks == InitBlocks /\ [][NextBlocks]_vars

----------------------------------------------------------------------------
(* ui.rs: update_toolbar_slot *)

MaxToolbarEvents == 2

\* build_toolbar: one icon entity and one text entity per toolbar button
Toolbar ==
    [icons |-> [i \in 1..TOOLBAR_BUTTONS |-> i],
     text |-> [i \in 1..TOOLBAR_BUTTONS |-> i]]

\* Vec::get with a 0-based index: Some exactly below the length
VecGet(vec, index) == IF index < Len(vec) THEN <<vec[index + 1]>> ELSE <<>>

\* update_toolbar_slot: the icon colour of a stack
ImageNode(stack) ==
    IF stack = <<>> THEN "default"
    ELSE IF stack[1].item_id = 1 THEN "AMBER_700"
    ELSE IF stack[1].item_id = 2 THEN "GREEN_700"
    ELSE "STONE_500"

\* update_toolbar_slot: the label of a stack
Text(stack) == IF stack = <<>> THEN "" ELSE ToString(stack[1].count)

\* nothing has been inserted on any icon or text entity
ToolbarBlank == [i \in 1..TOOLBAR_BUTTONS |-> [icon |-> "default", text |-> ""]]

\* update_toolbar_slot: the loop over events.read().  An event whose slot has
\* no icon or no text entity ends the system (return); the events the
\* iterator did not yield stay unread.
RECURSIVE UpdateToolbarSlot(_, _)
UpdateToolbarSlot(shown, events) ==
    IF events = <<>> THEN [shown |-> shown, unread |-> <<>>]
    ELSE LET e == Head(events)
             icon_entity == VecGet(Toolbar.icons, e.slot)
             text_entity == VecGet(Toolbar.text, e.slot)
         IN  IF icon_entity = <<>> THEN [shown |-> shown, unread |-> Tail(events)]
             ELSE IF text_entity = <<>> THEN [shown |-> shown, unread |-> Tail(events)]
             ELSE UpdateToolbarSlot(
                      [shown EXCEPT ![icon_entity[1]].icon = ImageNode(e.stack),
                                    ![text_entity[1]].text = Text(e.stack)],
                      Tail(events))

ToolbarSlotUpdate(stack, slot) == [stack |-> stack, slot |-> slot]

\* the events considered: an emptied slot or a stack of one or two items, for
\* every toolbar slot and the first slot past the toolbar
ToolbarSlotUpdates ==
    { ToolbarSlotUpdate(stack, slot) :
        stack \in {<<>>} \cup { <<ItemStack(id, n)>> : id \in ItemIds, n \in 1..2 },
        slot \in 0..TOOLBAR_BUTTONS }

ToolbarEvents ==
    UNION { [1..n -> ToolbarSlotUpdates] : n \in 0..MaxToolbarEvents }

\* one run of update_toolbar_slot over some pending events; result keeps the
\* events, what the toolbar shows after the run and the events left unread
UpdateToolbarSlotRun ==
    /\ result = <<>>
    /\ \E events \in ToolbarEvents :
       \E out \in {UpdateToolbarSlot(ToolbarBlank, events)} :
           result' = <<[events |-> events, shown |-> out.shown, unread |-> out.unread]>>
    /\ UNCHANGED <<tileVars, physVars, occupied, playerVars>>

InitToolbar ==
    /\ timestep \in Timesteps
    /\ tiles = [c \in Coords |-> BuildTerrainTile(c[2])]
    /\ NoInteraction
    /\ NoBody
    /\ NoPlayer

NextToolbar == UpdateToolbarSlotRun

SpecToolbar == InitToolbar /\ [][NextToolbar]_vars

----------------------------------------------------------------------------
(* terrain/generation.rs: generate_terrain_offsets *)

\* the widest map_width offsets are generated for
MaxOffsetsWidth == 6

offsets_run_min == 5
offsets_run_max == 10

\* generate_terrain_offsets: the loop goes on while the queue is shorter than
\* the map is wide
OffsetsWanted_Short(len, width) == len + offsets_run_min < width

OffsetsWanted(len, width) == len < width

\* generate_terrain_offsets: up_chance, as numerator and denominator
UpChance(current_offset) ==
    <<offsets_shift_limit - current_offset, 2 * offsets_shift_limit>>

\* rand::random_bool(p): true is drawn only when p > 0, false only when p < 1
RandomBool(p) == { b \in BOOLEAN : (b => p[1] > 0) /\ (~b => p[1] < p[2]) }

\* generate_terrain_offsets: one step up or down, then the clamp
Shifted(current_offset, up) ==
    Clamp(IF up THEN current_offset + 1 ELSE current_offset - 1,
          0 - offsets_shift_limit, offsets_shift_limit)

\* run_length copies of the current offset pushed to the back
PushedBack(ground_offsets, current_offset, run_length) ==
    ground_offsets \o [k \in 1..run_length |-> current_offset]

\* the generator's locals, for result
Generating(width, ground_offsets, current_offset, at) ==
    <<[map_width |-> width, ground_offsets |-> ground_offsets,
       current_offset |-> current_offset, pc |-> at]>>

GeneratorIdle == UNCHANGED <<tileVars, physVars, occupied, playerVars>>

\* generate_terrain_offsets is entered: the empty queue and the first offset
GenerateTerrainOffsetsEnter ==
    /\ result = <<>>
    /\ \E width \in 0..MaxOffsetsWidth :
       \E current_offset \in (0 - offsets_shift_limit)..offsets_shift_limit :
           result' = Generating(width, <<>>, current_offset, "while")
    /\ GeneratorIdle

\* one pass of the while loop: a run is pushed, the offset shifts.
\* random_bool panics on a probability outside [0, 1].
GenerateTerrainOffsetsRun ==
    /\ result # <<>>
    /\ result[1].pc = "while"
    /\ OffsetsWanted(Len(result[1].ground_offsets), result[1].map_width)
    /\ \E run_length \in offsets_run_min..offsets_run_max :
       \E p \in {UpChance(result[1].current_offset)} :
       \E ground_offsets \in {PushedBack(result[1].ground_offsets,
                                         result[1].current_offset, run_length)} :
           IF p[1] < 0 \/ p[1] > p[2]
           THEN result' = Generating(result[1].map_width, ground_offsets,
                                     result[1].current_offset, "panic")
           ELSE \E up \in RandomBool(p) :
                    result' = Generating(result[1].map_width, ground_offsets,
                                         Shifted(result[1].current_offset, up),
                                         "while")
    /\ GeneratorIdle

\* the loop condition fails: the queue is returned
GenerateTerrainOffsetsReturn ==
    /\ result # <<>>
    /\ result[1].pc = "while"
    /\ ~OffsetsWanted(Len(result[1].ground_offsets), result[1].map_width)
    /\ result' = Generating(result[1].map_width, result[1].ground_offsets,
                            result[1].current_offset, "returned")
    /\ GeneratorIdle

InitOffsets ==
    /\ timestep \in Timesteps
    /\ tiles = [c \in Coords |-> BuildTerrainTile(c[2])]
    /\ NoInteraction
    /\ NoBody
    /\ NoPlayer

NextOffsets ==
    \/ GenerateTerrainOffsetsEnter
    \/ GenerateTerrainOffsetsRun
    \/ GenerateTerrainOffsetsReturn

\* the function, once called, keeps running
SpecOffsets == InitOffsets /\ [][NextOffsets]_vars /\ WF_vars(NextOffsets)

----------------------------------------------------------------------------
(* terrain.rs: the observers with their Commands kept in a queue.  What an *)
(* observer writes through &mut TileData or &mut BreakTimer is in the world *)
(* at once; what it hands to Commands (insert or remove of BreakTimer and   *)
(* Collider) waits in the queue, here result, until it is applied.  The     *)
(* queue is first in, first out; when it is applied between two observers   *)
(* of one step is left open.                                                *)

\* a command at the front instead of the back of the queue
Queued_Front(queue, commands) == commands \o queue
\* Commands: the commands join the back of the queue
Queued(queue, commands) == queue \o commands

InsertCommand(t, component, value) ==
    [op |-> "insert", target |-> t, component |-> component, value |-> value]

RemoveCommand(t, component) ==
    [op |-> "remove", target |-> t, component |-> component, value |-> <<>>]

\* tile_interaction runs once the commands of the step before are applied
TileInteractionQueued ==
    /\ result = <<>>
    /\ \E pressed \in SUBSET Buttons, cursor \in CursorPoints :
           \E order \in Orders(pressed) : TileInteraction(pressed, order, cursor)

\* tile_destruction, its commands queued
TileDestructionQueued ==
    /\ pending # <<>>
    /\ Head(pending).kind = "TileDestroyed"
    /\ LET t == Head(pending).target
       IN  /\ last_obs' = Observed("TileDestroyed", t)
           /\ IF ~Breakable(tiles[t])
              THEN UNCHANGED <<tiles, break_timer, item_events, result>>
              ELSE IF break_timer[t] = <<>>
              THEN /\ result' = Queued(result, <<InsertCommand(t, "BreakTimer", NewBreakTimer)>>)
                   /\ UNCHANGED <<tiles, break_timer, item_events>>
              ELSE LET ticked == Tick(break_timer[t][1], timestep)
                   IN  /\ break_timer' = [break_timer EXCEPT ![t] = <<ticked>>]
                       /\ IF NotReady(ticked)
                          THEN UNCHANGED <<tiles, item_events, result>>
                          ELSE /\ item_events' = Append(item_events, PickedUp(tiles[t]))
                               /\ tiles' = GetMut(tiles, t, Destroyed(tiles[t]))
                               /\ result' = Queued(result,
                                                   <<RemoveCommand(t, "BreakTimer"),
                                                     RemoveCommand(t, "Collider")>>)
    /\ pending' = Tail(pending)
    /\ UNCHANGED <<timestep, collider, held, hold, last_destroy>>
    /\ UNCHANGED <<physVars, occupied, playerVars>>

\* tile_placement, its command queued
TilePlacementQueued ==
    /\ pending # <<>>
    /\ Head(pending).kind = "TilePlaced"
    /\ LET t == Head(pending).target
       IN  /\ last_obs' = Observed("TilePlaced", t)
           /\ IF PlaceAllowed(tiles[t])
              THEN /\ tiles' = GetMut(tiles, t, Placed(tiles[t]))
                   /\ result' = Queued(result, <<InsertCommand(t, "Collider", TRUE)>>)
              ELSE UNCHANGED <<tiles, result>>
    /\ pending' = Tail(pending)
    /\ UNCHANGED <<timestep, break_timer, collider, item_events, held, hold,
                   last_destroy>>
    /\ UNCHANGED <<physVars, occupied, playerVars>>

\* the command at the front of the queue is applied to its entity
ApplyCommand ==
    /\ result # <<>>
    /\ LET c == Head(result)
       IN  /\ break_timer' = IF c.component # "BreakTimer" THEN break_timer
                             ELSE IF c.op = "insert"
                                  THEN [break_timer EXCEPT ![c.target] = <<c.value>>]
                                  ELSE [break_timer EXCEPT ![c.target] = <<>>]
           /\ collider' = IF c.component # "Collider" THEN collider
                          ELSE [collider EXCEPT ![c.target] = (c.op = "insert")]
    /\ result' = Tail(result)
    /\ UNCHANGED <<timestep, tiles, item_events, pending, last_obs, held, hold,
                   last_destroy>>
    /\ UNCHANGED <<physVars, occupied, playerVars>>

NextCommands ==
    \/ TileInteractionQueued
    \/ TileDestructionQueued
    \/ TilePlacementQueued
    \/ ApplyCommand
    \/ EventUpdate

SpecCommands == InitTiles /\ [][NextCommands]_vars

----------------------------------------------------------------------------
(* inventory.rs / player.rs: handle_item_pickups run after run, from the    *)
(* empty inventory                                                          *)

\* items held and pending together
MaxStacked == 6
\* ItemPickedUp events written and not yet read
MaxUnread == 1

\* one more item id than the inventory has slots
PickedUpIds == 1..(Len(InventoryDefault) + 1)

\* the items held in an inventory
RECURSIVE Stacked(_)
Stacked(inv) ==
    IF inv = <<>> THEN 0
    ELSE (IF Head(inv) = <<>> THEN 0 ELSE Head(inv)[1].count) + Stacked(Tail(inv))

\* item_events.write(ItemPickedUp(id))
ItemPickedUp(id) ==
    /\ Len(item_events) < MaxUnread
    /\ Stacked(inventory) + Len(item_events) < MaxStacked
    /\ item_events' = Append(item_events, id)
    /\ UNCHANGED <<timestep, tiles, break_timer, collider, pending, last_obs,
                   held, hold, last_destroy, physVars, occupied, playerVars, result>>

\* a run of one of the two handlers over the unread events; result keeps how
\* many events the run read and how many of them it put in no slot
PickupsHandled(out) ==
    /\ item_events # <<>>
    /\ inventory' = out.inventory
    /\ item_events' = out.unread
    /\ \E read \in {Len(item_events) - Len(out.unread)} :
           result' = <<[read |-> read,
                        dropped |-> read - (Stacked(out.inventory) - Stacked(inventory))]>>
    /\ UNCHANGED <<timestep, tiles, break_timer, collider, pending, last_obs,
                   held, hold, last_destroy, physVars, occupied, caster_hits,
                   grounded, player_vel, keyboard, upc, frames>>

InitPickups ==
    /\ timestep \in Timesteps
    /\ tiles = [c \in Coords |-> BuildTerrainTile(c[2])]
    /\ NoInteraction
    /\ NoBody
    /\ NoPlayer

NextPickups ==
    \/ \E id \in PickedUpIds : ItemPickedUp(id)
    \/ PickupsHandled(HandleItemPickups(inventory, item_events, <<>>))
    \/ PickupsHandled(PlayerHandleItemPickups(inventory, item_events))

SpecPickups == InitPickups /\ [][NextPickups]_vars

----------------------------------------------------------------------------
(* terrain/generation.rs: generate_hills and the surface levels, with the   *)
(* parameters of MapParameters::default                                     *)

MAX_ATTEMPTS == 50

\* MapParameters::default, every field at the value the program gives it
MapParametersDefault ==
    LET manual == [map_width |-> 300, map_height |-> 50, sky_height |-> 15,
                   offsets_shift_limit |-> offsets_shift_limit,
                   offsets_run_min |-> offsets_run_min,
                   offsets_run_max |-> offsets_run_max,
                   hill_min_width |-> 20, hill_max_width |-> 40,
                   hill_min_height |-> 5, hill_max_height |-> 10,
                   hill_map_edge_margin |-> 10, hill_max_overlap |-> 10,
                   hill_map_width_per |-> 50, dirt_thickness |-> dirt_thickness]
    IN  [f \in DOMAIN manual \cup {"right_edge", "left_edge", "top_edge", "bottom_edge"} |->
            IF f = "right_edge" THEN manual.map_width \div 2
            ELSE IF f = "left_edge" THEN (0 - (manual.map_width \div 2)) - 1
            ELSE IF f = "top_edge" THEN manual.sky_height
            ELSE IF f = "bottom_edge" THEN (manual.sky_height - manual.map_height) + 1
            ELSE manual[f]]

Min(a, b) == IF a <= b THEN a ELSE b
Max(a, b) == IF a >= b THEN a ELSE b

\* HillParameters::get_overlap
GetOverlap(self, other) ==
    LET left_bound == Max(self.x - I16Div(self.width, 2), other.x - I16Div(other.width, 2))
        right_bound == Min(self.x + I16Div(self.width, 2), other.x + I16Div(other.width, 2))
    IN  right_bound - left_bound

\* HillParameters::new can give every hill whose fields are in range
HillInRange(params, hill) ==
    /\ hill.x >= params.left_edge + params.hill_map_edge_margin
    /\ hill.x <= params.right_edge - params.hill_map_edge_margin
    /\ hill.height >= params.hill_min_height /\ hill.height <= params.hill_max_height
    /\ hill.width >= params.hill_min_width /\ hill.width <= params.hill_max_width

HillParameters(x, height, width) == [x |-> x, height |-> height, width |-> width]

\* the hills HillParameters::new is taken to draw: three of the widest and
\* tallest 30 columns apart about the middle, three of the narrowest and
\* lowest far from them
NewHills ==
    { hill \in { HillParameters(0 - 30, 10, 40), HillParameters(0, 10, 40),
                 HillParameters(30, 10, 40), HillParameters(0 - 100, 5, 20),
                 HillParameters(100, 5, 20), HillParameters(140, 5, 20) } :
        HillInRange(MapParametersDefault, hill) }

\* derive(Ord) on HillParameters: by x, then height, then width
HillLess(a, b) ==
    \/ a.x < b.x
    \/ a.x = b.x /\ a.height < b.height
    \/ a.x = b.x /\ a.height = b.height /\ a.width < b.width

\* hills.sort()
RECURSIVE SortHills(_)
SortHills(hills) ==
    IF hills = <<>> THEN <<>>
    ELSE LET rest == SortHills(Tail(hills))
             before == SelectSeq(rest, LAMBDA h : HillLess(h, Head(hills)))
             after == SelectSeq(rest, LAMBDA h : ~HillLess(h, Head(hills)))
         IN  before \o <<Head(hills)>> \o after

\* an offsets queue of runs of offsets_run_max, high and one below high in
\* turn, map_width long
Sawtooth(params, high) ==
    [k \in 1..params.map_width |->
        IF ((k - 1) \div params.offsets_run_max) % 2 = 0 THEN high ELSE high - 1]

\* generate_terrain_offsets can return the queue: runs of offsets_run_min to
\* offsets_run_max equal offsets, each run one above or one below the run
\* before it as up_chance allows, the last run starting below map_width
Generable(params, offsets) ==
    LET n == Len(offsets)
        starts == {1} \cup { k \in 2..n : offsets[k] # offsets[k - 1] }
        end(s) == IF \E t \in starts : t > s
                  THEN (CHOOSE t \in starts : t > s /\ \A u \in starts : u > s => t <= u) - 1
                  ELSE n
    IN  /\ n >= params.map_width
        /\ \A k \in 1..n : Abs(offsets[k]) <= params.offsets_shift_limit
        /\ \A s \in starts :
               /\ s - 1 < params.map_width
               /\ (end(s) - s) + 1 >= params.offsets_run_min
               /\ (end(s) - s) + 1 <= params.offsets_run_max
               /\ s > 1 => offsets[s] \in { Shifted(offsets[s - 1], up) :
                                              up \in RandomBool(UpChance(offsets[s - 1])) }

GeneratedOffsets ==
    { offsets \in { Sawtooth(MapParametersDefault, high) : high \in {0 - 3, 0, 4} } :
        Generable(MapParametersDefault, offsets) }

HillsIdle == UNCHANGED <<tileVars, physVars, occupied, playerVars>>

\* generate_hills is entered
GenerateHillsEnter ==
    /\ result = <<>>
    /\ result' = <<[pc |-> "generation", hills |-> <<>>, attempts |-> 0]>>
    /\ HillsIdle

\* one pass of 'generation: a new hill is drawn and pushed unless it
\* overlaps a hill already there by more than hill_max_overlap
GenerateHillsAttempt ==
    /\ result # <<>>
    /\ result[1].pc = "generation"
    /\ Len(result[1].hills) <
           MapParametersDefault.map_width \div MapParametersDefault.hill_map_width_per
    /\ result[1].attempts < MAX_ATTEMPTS
    /\ \E new_hill \in NewHills :
           result' = <<[pc |-> "generation",
                        hills |-> IF \E k \in 1..Len(result[1].hills) :
                                         GetOverlap(new_hill, result[1].hills[k])
                                             > MapParametersDefault.hill_max_overlap
                                  THEN result[1].hills
                                  ELSE Append(result[1].hills, new_hill),
                        attempts |-> result[1].attempts + 1]>>
    /\ HillsIdle

\* the loop ends: the hills are sorted and returned
GenerateHillsReturn ==
    /\ result # <<>>
    /\ result[1].pc = "generation"
    /\ ~(/\ Len(result[1].hills) <
               MapParametersDefault.map_width \div MapParametersDefault.hill_map_width_per
         /\ result[1].attempts < MAX_ATTEMPTS)
    /\ result' = <<[pc |-> "returned", hills |-> SortHills(result[1].hills),
                    attempts |-> result[1].attempts]>>
    /\ HillsIdle

\* rasterize_canvas on generated offsets and the returned hills: the level
\* of the grass block of every column
RasterizeGenerated ==
    /\ result # <<>>
    /\ result[1].pc = "returned"
    /\ \E offsets \in GeneratedOffsets :
           result' = <<[pc |-> "rasterized", hills |-> result[1].hills,
                        offsets |-> offsets,
                        level |-> [x \in MapParametersDefault.left_edge
                                           .. MapParametersDefault.right_edge |->
                                      LevelAt(MapParametersDefault, offsets,
                                              result[1].hills, x)]]>>
    /\ HillsIdle

InitHills ==
    /\ timestep \in Timesteps
    /\ tiles = [c \in Coords |-> BuildTerrainTile(c[2])]
    /\ NoInteraction
    /\ NoBody
    /\ NoPlayer

NextHills ==
    \/ GenerateHillsEnter
    \/ GenerateHillsAttempt
    \/ GenerateHillsReturn
    \/ RasterizeGenerated

SpecHills == InitHills /\ [][NextHills]_vars

----------------------------------------------------------------------------
(* terrain.rs: tile_interaction, from the window's cursor *)

\* the primary window, in world units
WindowSize == <<6 * Unit, 4 * Unit>>

\* Camera::viewport_to_world_2d for the 2D camera at the origin: the
\* viewport's centre is the world's origin and the viewport's y grows down
ViewportToWorld2d(cursor_pos) ==
    <<cursor_pos[1] - (WindowSize[1] \div 2), (WindowSize[2] \div 2) - cursor_pos[2]>>

\* Window::cursor_position: None while the cursor is outside the window,
\* else a point of the window
CursorPositions ==
    {<<>>} \cup
    { <<<<x, y>>>> : x \in {0, (WindowSize[1] \div 2) - (Unit \div 2), WindowSize[1] \div 2},
                     y \in {0, WindowSize[2] \div 2, (WindowSize[2] \div 2) + (Unit \div 2)} }

\* one run of tile_interaction: result keeps the input and whether the run
\* returned or panicked in unwrap()
TileInteractionRun(pressed, order, cursor_position) ==
    /\ result = <<>>
    /\ pending = <<>>
    /\ order \in Orders(pressed)
    /\ IF pressed \cap {"Left", "Right"} = {}
       THEN /\ result' = <<[pressed |-> pressed, cursor_position |-> cursor_position,
                            outcome |-> "returned", tile |-> <<>>]>>
            /\ UNCHANGED pending
       ELSE IF cursor_position = <<>>
       THEN /\ result' = <<[pressed |-> pressed, cursor_position |-> cursor_position,
                            outcome |-> "panicked", tile |-> <<>>]>>
            /\ UNCHANGED pending
       ELSE \E t \in {TileUnder(ViewportToWorld2d(cursor_position[1]))} :
                /\ result' = <<[pressed |-> pressed, cursor_position |-> cursor_position,
                                outcome |-> "returned", tile |-> t]>>
                /\ pending' = IF t = <<>> THEN <<>> ELSE Triggers(order, t[1])
    /\ UNCHANGED <<timestep, tiles, break_timer, collider, item_events, last_obs,
                   held, hold, last_destroy>>
    /\ UNCHANGED <<physVars, occupied, playerVars>>

NextCursor ==
    \E pressed \in SUBSET Buttons, cursor_position \in CursorPositions :
        \E order \in Orders(pressed) : TileInteractionRun(pressed, order, cursor_position)

SpecCursor == InitTiles /\ [][NextCursor]_vars

----------------------------------------------------------------------------

Init == InitTiles

Next ==
    \/ \E pressed \in SUBSET Buttons, cursor \in CursorPoints :
           \E order \in Orders(pressed) : TileInteraction(pressed, order, cursor)
    \/ TileDestruction
    \/ TilePlacement
    \/ EventUpdate

Spec == Init /\ [][Next]_vars

----------------------------------------------------------------------------
(* The mutation protocol: claims *)

\* the tile the last observer ran on
ObsTile == last_obs.target[1]

\* the last observer was tile_destruction / tile_placement
ObsDestroy == last_obs.kind = "TileDestroyed"
ObsPlace == last_obs.kind = "TilePlaced"

\* the last observer was a tile_destruction that committed
ObsCommit ==
    /\ ObsDestroy
    /\ tiles[ObsTile] # last_obs.tile \/ item_events # last_obs.events

\* C1: after world initialization and after any sequence of destroy and place
\* operations, every tile is solid exactly when its foreground id is not 0.
C1_SolidIffForeground ==
    \A c \in Coords : tiles[c].solid = (tiles[c].fg_id # 0)

\* a tile placed on air has been destroyed again
C1_Witness ==
    /\ ObsCommit
    /\ last_obs.tile = TileData(1, 0, TRUE)
    /\ tiles[ObsTile] = TileData(0, 0, FALSE)

\* C2 (as claimed): over a run of consecutive fixed steps whose destroy action
\* targets one solid tile, the tile is not committed while the run is shorter
\* than BREAK_TIME, is committed once the run is BREAK_TIME long, and over the
\* whole run the commit happens exactly once and writes exactly one
\* ItemPickedUp event.
C2_HoldCommitsAtBreakTime ==
    (hold.tile # <<>> /\ pending = <<>>) =>
        /\ hold.commits <= 1
        /\ hold.events = hold.commits
        /\ hold.time < BREAK_TIME => hold.commits = 0
        /\ hold.time >= BREAK_TIME => hold.commits = 1

\* C3 (as claimed): once the destroy action has moved to another tile, the
\* tile it left carries no break-state: only the tile the latest destroy action
\* targeted can carry a BreakTimer.
C3_MovedAwayDiscards ==
    pending = <<>> =>
        \A c \in Coords : break_timer[c] # <<>> => last_destroy = <<c>>

\* C4: when a destroy commits, the tile's fg_id is 0 and solid is false, its
\* BreakTimer is gone, and the one ItemPickedUp event written carries the
\* fg_id the tile had before the commit, which is not 0.
C4_CommitEffect ==
    ObsCommit =>
        /\ tiles[ObsTile].fg_id = 0
        /\ ~tiles[ObsTile].solid
        /\ break_timer[ObsTile] = <<>>
        /\ item_events = Append(last_obs.events, last_obs.tile.fg_id)
        /\ last_obs.tile.fg_id # 0

\* a grass tile has just been committed
C4_Witness ==
    /\ ObsCommit
    /\ last_obs.tile.fg_id = 2
    /\ item_events = <<2>>

\* C5 (as claimed): the first destroy action on a solid tile without
\* break-state creates a break-state with zero elapsed time.
C5_FirstDestroyZeroElapsed ==
    (ObsDestroy /\ last_obs.tile.solid /\ last_obs.timer = <<>>) =>
        break_timer[ObsTile] = <<0>>

\* C5 (amended): the first destroy action on a solid tile without break-state
\* creates a break-state whose elapsed time is already one timestep, and leaves
\* the tile as it was; every later destroy action that does not commit adds one
\* more timestep.
C5_FirstDestroyOneTimestep ==
    (ObsDestroy /\ last_obs.tile.solid /\ ~ObsCommit) =>
        /\ tiles[ObsTile] = last_obs.tile
        /\ break_timer[ObsTile] =
               IF last_obs.timer = <<>> THEN <<timestep>>
               ELSE <<last_obs.timer[1] + timestep>>

\* a first destroy action has just created a break-state
C5_Witness ==
    /\ ObsDestroy
    /\ last_obs.tile.solid
    /\ last_obs.timer = <<>>
    /\ break_timer[ObsTile] # <<>>

\* C6: a destroy action on a tile that is not solid changes nothing: the tile's
\* data, its break-state, its collider and the events written stay as they were.
C6_DestroyNonSolidNoOp ==
    (ObsDestroy /\ ~last_obs.tile.solid) =>
        /\ tiles[ObsTile] = last_obs.tile
        /\ break_timer[ObsTile] = last_obs.timer
        /\ break_timer[ObsTile] = <<>>
        /\ collider[ObsTile] = last_obs.collider
        /\ item_events = last_obs.events

\* a destroy action has just run on a tile that is not solid
C6_Witness ==
    /\ ObsDestroy
    /\ ~last_obs.tile.solid
    /\ last_destroy = <<ObsTile>>

\* C7: a place action on a non-solid tile sets fg_id to 1 and solid to true; on
\* a solid tile it leaves fg_id, bg_id, solid and the break-state as they were.
C7_PlaceEffect ==
    ObsPlace =>
        IF ~last_obs.tile.solid
        THEN /\ tiles[ObsTile].fg_id = 1
             /\ tiles[ObsTile].solid
        ELSE /\ tiles[ObsTile] = last_obs.tile
             /\ break_timer[ObsTile] = last_obs.timer

\* a place action has just run on a tile that was placed earlier and is
\* being broken
C7_Witness ==
    /\ ObsPlace
    /\ last_obs.tile = TileData(1, 0, TRUE)
    /\ last_obs.timer # <<>>
    /\ tiles[ObsTile] = last_obs.tile

\* C8: in every fixed step the systems run in the order accel_env,
\* accel_input, velocity_cap, check_collisions, position_update: each system
\* starts from what the one before it left, nothing else touches the body in
\* between, and position_update integrates the velocity that this step's
\* acceleration, cap and collision correction produced.
C8_SystemOrder ==
    [][ LET v0 == step_start.velocity
            p0 == step_start.position
            v1 == AccelEnv(v0, timestep)
            v2 == AccelInput(v1, keys, timestep)
            v3 == VelocityCap(v2)
            v4 == CheckCollisions(p0, v3, transform, tiles)
            p5 == PositionUpdate(p0, v4, timestep)
            V == <<v0, v1, v2, v3, v4, v4>>
            P == <<p0, p0, p0, p0, p0, p5>>
        IN  pc # 0 =>
                /\ velocity = V[pc] /\ position = P[pc]
                /\ velocity' = V[pc + 1] /\ position' = P[pc + 1]
                /\ pc' = IF pc = 5 THEN 0 ELSE pc + 1 ]_vars

\* a second fixed step has ended in which the body landed: the ground under
\* it turned its falling velocity around and the position moved with that
C8_Witness ==
    /\ pc = 0
    /\ steps >= 2
    /\ "bottom" \in Contacts(step_start.position, transform, tiles)
    /\ velocity[2] > 0
    /\ position[2] > step_start.position[2]

\* C9: a presentation step (transform_update, player_visual_update) never
\* changes position or velocity, and after every fixed step position and
\* velocity are what the same fixed steps produce with no presentation step
\* at all, whatever presentation steps ran in between.
C9_PresentationOneWay ==
    [][ /\ presented' # presented => position' = position /\ velocity' = velocity
        /\ pc' = 0 => sim'.position = position' /\ sim'.velocity = velocity' ]_vars

\* presentation ran before the first fixed step and between the first and the
\* second, left the transform away from the position, and the second step is over
C9_Witness ==
    /\ pc = 0
    /\ steps >= 2
    /\ Len(presented) >= 2
    /\ presented[1] = 0
    /\ presented[2] = 1
    /\ transform.translation # position
    /\ position # step_start.position

\* C10: the ranges tiles_occupied returns contain every tile coordinate from
\* floor(cx - hx) to ceil(cx + hx) on x and from floor(cy - hy) to
\* ceil(cy + hy) on y.
C10_RangeCoversFootprint ==
    occupied # <<>> =>
        LET hx == transform.scale[1] \div 2
            hy == transform.scale[2] \div 2
        IN  /\ FloorTo(position[1] - hx) .. CeilTo(position[1] + hx) \subseteq occupied[1].x
            /\ FloorTo(position[2] - hy) .. CeilTo(position[2] + hy) \subseteq occupied[1].y

\* the body's box at centre p and the box of tile c share a point
Overlaps(p, tr, c) ==
    LET tt == TileTransform(c)
    IN  /\ Abs(p[1] - tt.translation[1]) <= (tr.scale[1] \div 2) + (tt.scale[1] \div 2)
        /\ Abs(p[2] - tt.translation[2]) <= (tr.scale[2] \div 2) + (tt.scale[2] \div 2)

\* the body's box lies wholly on one side of tile c at centre p and wholly on
\* the opposite side at centre q, and the straight path between passes the tile
Crossed(p, q, tr, c) ==
    LET tt == TileTransform(c)
        dx(a) == a[1] - tt.translation[1]
        dy(a) == a[2] - tt.translation[2]
        rx == (tr.scale[1] \div 2) + (tt.scale[1] \div 2)
        ry == (tr.scale[2] \div 2) + (tt.scale[2] \div 2)
    IN  \/ /\ Abs(dx(p)) <= rx /\ Abs(dx(q)) <= rx
           /\ \/ dy(p) > ry /\ dy(q) < 0 - ry
              \/ dy(p) < 0 - ry /\ dy(q) > ry
        \/ /\ Abs(dy(p)) <= ry /\ Abs(dy(q)) <= ry
           /\ \/ dx(p) > rx /\ dx(q) < 0 - rx
              \/ dx(p) < 0 - rx /\ dx(q) > rx

\* C11 (as claimed): a body at any speed up to VELOCITY_MAX does not get from
\* one side of a solid tile to the other in a fixed step without
\* check_collisions registering a contact with the tile, either in the step
\* that moves it or in the step after; and whenever its box overlaps a solid
\* tile as check_collisions runs, a contact with that tile is registered.
C11_NoTunnelling ==
    Running = "position_update" =>
        \A c \in Coords :
            LET next == PositionUpdate(position, velocity, timestep)
            IN  tiles[c].solid =>
                    /\ Overlaps(position, transform, c) =>
                           ContactSide(position, transform, c, tiles) # "none"
                    /\ Crossed(position, next, transform, c) =>
                           \/ ContactSide(position, transform, c, tiles) # "none"
                           \/ ContactSide(next, transform, c, tiles) # "none"

\* the angle, in milliradians, between straight up and the normal of the
\* surface hit, which is opposite to the normal on the player's own shape
SurfaceNormalFromUp(hit) == PiMilli - Abs(hit)

\* C12 (as claimed): after update_grounded the player is grounded if and only
\* if the shape cast reports a hit whose surface normal is within
\* HIT_TOLERANCE_RADIANS of straight up.
C12_GroundedIffUpwardHit ==
    upc = 2 =>
        (grounded <=>
            \E hit \in caster_hits : SurfaceNormalFromUp(hit) < HIT_TOLERANCE_RADIANS)

\* C13 (as claimed): keyboard_input changes the vertical velocity only when the
\* player is grounded and a jump key has just gone from released to pressed,
\* and then sets it to JUMP_VEL.
C13_JumpEdgeTriggered ==
    [][ (upc = 2 /\ upc' = 0 /\ player_vel'[2] # player_vel[2]) =>
            /\ grounded
            /\ keyboard.just_pressed \cap {"KeyW", "Space"} # {}
            /\ player_vel'[2] = JUMP_VEL * Unit ]_vars

\* the side the body has come from onto the lone tile
CameFrom == CHOOSE from \in DOMAIN Approaches : position \in Approaches[from]

InTileBox(p, c) ==
    /\ Abs(p[1] - TileBox(c).center[1]) <= TileBox(c).half_size[1]
    /\ Abs(p[2] - TileBox(c).center[2]) <= TileBox(c).half_size[2]
InsideTileBox(p, c) ==
    /\ Abs(p[1] - TileBox(c).center[1]) < TileBox(c).half_size[1]
    /\ Abs(p[2] - TileBox(c).center[2]) < TileBox(c).half_size[2]

\* C15 (as claimed): tile_under looks up the coordinate (floor(x), floor(y))
\* for every point (x, y).
C15_FloorOnBothAxes ==
    result # <<>> =>
        LET p == result[1].world_space
            c == <<FloorTo(p[1]), FloorTo(p[2])>>
        IN  result[1].tile = IF c \in Coords THEN <<c>> ELSE <<>>

\* C15 (amended): tile_under looks up the coordinate (floor(x), ceil(y)) for
\* every point (x, y), which is the tile whose box, as the world is built,
\* holds the point: the tile it returns has the point in its box, and a point
\* inside the box of a tile of the map gets that tile.
C15_FloorXCeilY ==
    result # <<>> =>
        LET p == result[1].world_space
            c == <<FloorTo(p[1]), CeilTo(p[2])>>
        IN  /\ result[1].tile = IF c \in Coords THEN <<c>> ELSE <<>>
            /\ result[1].tile # <<>> => InTileBox(p, result[1].tile[1])
            /\ \A t \in Coords : InsideTileBox(p, t) => result[1].tile = <<t>>

\* a point on the horizontal grid line at the top of the map and on a vertical
\* grid line between two tiles has been looked up and got a tile
C15_Witness ==
    /\ result # <<>>
    /\ result[1].world_space = <<0, top_edge * Unit>>
    /\ result[1].tile = <<<<0, top_edge>>>>

\* the columns of a map of a map_width
ColumnsOf(width) == MapParameters(width).left_edge .. MapParameters(width).right_edge

\* C16 (as claimed): when the offsets handed to rasterize_canvas are too few
\* for the map_width, from_world panics; no GameMap is produced from a list
\* of offsets that does not hold an offset for every column of the map.
C16_NoMapFromTooFewOffsets ==
    result # <<>> =>
        /\ Len(result[1].offsets) < result[1].map_width => result[1].world.panic
        /\ ~result[1].world.panic =>
               Len(result[1].offsets) >= Cardinality(ColumnsOf(result[1].map_width))

----------------------------------------------------------------------------
(* velocity_cap: claims *)

\* the velocity the k-th run of velocity_cap left (k in 1..Len(result))
AfterRun(k) == IF k < Len(result) THEN result[k + 1] ELSE velocity

\* a and b point the same way, to within the rounding of one length unit in
\* each component of b
SameDirection(a, b) ==
    /\ a[1] * b[1] >= 0
    /\ a[2] * b[2] >= 0
    /\ (a[1] * b[1]) + (a[2] * b[2]) > 0
    /\ Abs((a[1] * b[2]) - (a[2] * b[1])) <= Abs(a[1]) + Abs(a[2])

\* the length of v is max, to within the rounding of one length unit in each
\* component of v
HasLength(v, max) ==
    /\ LengthSquared(v) > (max - 2) * (max - 2)
    /\ LengthSquared(v) < (max + 1) * (max + 1)

\* C17: velocity_cap leaves a velocity of length at most VELOCITY_MAX as it
\* is, turns a longer one into a velocity of length VELOCITY_MAX (to the
\* rounding of the arithmetic) pointing the same way, and a second run
\* changes nothing the first run left
C17_VelocityCap ==
    \A k \in 1..Len(result) :
        LET before == result[k]
            after == AfterRun(k)
            cap == VELOCITY_MAX * Unit
        IN  /\ LengthSquared(before) <= cap * cap => after = before
            /\ LengthSquared(before) > cap * cap =>
                   /\ HasLength(after, cap)
                   /\ SameDirection(before, after)
            /\ k > 1 => after = before

\* a velocity over the limit on both axes has been capped, twice
C17_Witness ==
    /\ Len(result) >= 2
    /\ Abs(result[1][1]) > VELOCITY_MAX * Unit
    /\ Abs(result[1][2]) > VELOCITY_MAX * Unit
    /\ result[2] # result[1]
    /\ velocity = result[2]

----------------------------------------------------------------------------
(* handle_item_pickups: claims *)

RECURSIVE TotalCount(_, _)
TotalCount(inv, n) ==
    IF n = 0 THEN 0
    ELSE TotalCount(inv, n - 1) + (IF inv[n] = <<>> THEN 0 ELSE inv[n][1].count)

\* the items of the events all find a place: each item without a stack has
\* an empty slot of its own
Fit(inv, events) ==
    Cardinality({ id \in { events[k] : k \in 1..Len(events) } :
                      MatchingSlots(inv, id) = {} })
        <= Cardinality(EmptySlots(inv))

\* C19: a run of handle_item_pickups with k events pending whose items fit
\* in the inventory leaves the total item count k higher than it found it
C19_EveryPendingEventApplied ==
    (result # <<>> /\ Fit(result[1].inventory, result[1].events)) =>
        TotalCount(inventory, Len(inventory)) =
            TotalCount(result[1].inventory, Len(inventory)) + Len(result[1].events)

----------------------------------------------------------------------------
(* The GameMap under the mutation protocol: claims *)

\* C20: from the end of world initialization on, the map holds exactly one
\* tile for every coordinate of the generated rectangle and no other, whatever
\* destroy and place operations have run; a destroyed tile is still there, as
\* an empty tile
C20_MapEntriesConstant ==
    /\ DOMAIN tiles = Coords
    /\ ObsCommit =>
           tiles[ObsTile] = TileData(0, last_obs.tile.bg_id, FALSE)

\* a tile that was destroyed has been built on again
C20_Witness ==
    /\ ObsPlace
    /\ last_obs.tile.fg_id = 0
    /\ last_obs.tile.bg_id # 0
    /\ tiles[ObsTile].solid
    /\ DOMAIN tiles = Coords

----------------------------------------------------------------------------
(* A body let go above one tile: claims *)

\* the speed one fixed step of gravity adds, and the distance one fixed step
\* at that speed covers
RestSpeed == PerStep(Abs(GRAVITY) * Fine)
RestSlack == PerStep(RestSpeed)

\* the body's bottom edge is at the tile's top edge and its vertical velocity
\* is 0, both to within one fixed step of gravity
AtRest ==
    /\ Abs(BottomEdge - TileTopFine) <= RestSlack
    /\ Abs(velocity[2]) <= RestSpeed

\* C18: with no input, a 2 x 3 body let go at rest above one solid tile has
\* horizontal velocity 0 after every fixed step, and from some fixed step on
\* it stays with its bottom edge at the tile's top edge and its vertical
\* velocity about 0
C18_ComesToRest == [](velocity[1] = 0) /\ <>[]AtRest

\* the body has landed: it is at the tile's top edge, in contact, moving up
\* at the speed the contact left it
C18_Witness ==
    /\ AtRest
    /\ "bottom" \in ContactsFine(position, transform, tiles)
    /\ velocity[2] > 0
    /\ BottomEdge < TileTopFine

----------------------------------------------------------------------------
(* check_collisions: claims *)

\* the sides of the body found by result[1] that a solid tile touches, among
\* the tiles of the range the body occupies
TouchedSides ==
    { ContactSide(result[1].position, transform, c, tiles) :
        c \in { t \in GetRegionTiles(OccupiedTileRange(result[1].position,
                                                       transform.scale)) :
                   tiles[t].solid } } \ {"none"}

\* C21: check_collisions multiplies vx by -0.05 exactly when a left contact
\* exists and vx < 0 or a right contact exists and vx > 0, and vy exactly when
\* a bottom contact exists and vy < 0 or a top contact exists and vy > 0; once,
\* however many tiles touch the body; only solid tiles count; the position is
\* left alone
C21_PerAxisDamping ==
    result # <<>> =>
        LET v == result[1].velocity
            turn_x == \/ "left" \in TouchedSides /\ v[1] < 0
                      \/ "right" \in TouchedSides /\ v[1] > 0
            turn_y == \/ "bottom" \in TouchedSides /\ v[2] < 0
                      \/ "top" \in TouchedSides /\ v[2] > 0
        IN  /\ velocity[1] = IF turn_x THEN Scaled(Damping, v[1]) ELSE v[1]
            /\ velocity[2] = IF turn_y THEN Scaled(Damping, v[2]) ELSE v[2]
            /\ position = result[1].position

\* a body falling onto two tiles at once had its vertical velocity turned
\* around
C21_Witness ==
    /\ result # <<>>
    /\ Cardinality({ c \in Coords : ContactSide(result[1].position, transform, c, tiles)
                                       = "bottom" }) >= 2
    /\ result[1].velocity[2] < 0
    /\ velocity[2] > 0

----------------------------------------------------------------------------
(* player_collision: claims *)

\* the blocks of a visiting order
BlocksOf(order) == { order[i] : i \in 1..Len(order) }

\* C22: the velocity player_collision leaves does not depend on the order
\* the blocks are visited in: every order over the same blocks gives the
\* velocity the run gave
C22_OrderIndependent ==
    result # <<>> =>
        \A other \in VisitOrders(BlocksOf(result[1].order)) :
            PlayerCollision(result[1].velocity, BodyBox, other) = velocity

----------------------------------------------------------------------------
(* update_toolbar_slot: claims *)

\* the events of the run that name a slot of the toolbar
Applicable(events, slot) ==
    { k \in 1..Len(events) : events[k].slot = slot }

\* C23: an event whose slot has no icon or text entity is the only one
\* skipped: every slot named by an event of the run shows the stack of the
\* last such event, whether or not an event past the toolbar came before it
C23_OnlyThatEventSkipped ==
    result # <<>> =>
        \A slot \in 0..(TOOLBAR_BUTTONS - 1) :
            LET ks == Applicable(result[1].events, slot)
            IN  ks # {} =>
                  LET last == CHOOSE k \in ks : \A j \in ks : j <= k
                  IN  result[1].shown[slot + 1] =
                          [icon |-> ImageNode(result[1].events[last].stack),
                           text |-> Text(result[1].events[last].stack)]

----------------------------------------------------------------------------
(* generate_terrain_offsets: claims *)

Returned == result # <<>> /\ result[1].pc = "returned"

\* what C24 says of a returned queue
EnoughInRange ==
    Returned =>
        /\ Len(result[1].ground_offsets) >= result[1].map_width
        /\ Len(result[1].ground_offsets) <= result[1].map_width + offsets_run_max
        /\ \A k \in 1..Len(result[1].ground_offsets) :
               /\ result[1].ground_offsets[k] >= 0 - offsets_shift_limit
               /\ result[1].ground_offsets[k] <= offsets_shift_limit
        /\ RasterizeCanvas(MapParameters(result[1].map_width),
                           result[1].ground_offsets, <<>>).ok

\* C24: generate_terrain_offsets always returns, and the queue it returns
\* holds at least map_width and at most map_width + offsets_run_max offsets,
\* each within the shift limit, so rasterize_canvas does not refuse it
C24_EnoughOffsetsInRange == <>Returned /\ []EnoughInRange

\* a queue was returned after more than one run, longer than the map is wide
\* and holding two different offsets
C24_Witness ==
    /\ Returned
    /\ Len(result[1].ground_offsets) > result[1].map_width
    /\ result[1].map_width > offsets_run_min
    /\ \E j, k \in 1..Len(result[1].ground_offsets) :
           result[1].ground_offsets[j] # result[1].ground_offsets[k]

----------------------------------------------------------------------------
(* Collider and TileData.solid: claims *)

\* no trigger is waiting for its observer and no command to be applied
CommandsApplied == pending = <<>> /\ result = <<>>

\* C25: once the queued commands are applied, a tile carries a Collider
\* exactly when its TileData is solid, from world initialisation on and
\* after every destroy and place, both on one tile in one step included
C25_ColliderIffSolid ==
    CommandsApplied => \A c \in Coords : collider[c] = tiles[c].solid

\* a step whose destroy emptied a tile and whose place, run before the
\* Collider was taken off, made it solid again: all commands are applied
C25_Witness ==
    /\ CommandsApplied
    /\ last_obs.kind = "TilePlaced"
    /\ ~last_obs.tile.solid
    /\ last_obs.collider
    /\ tiles[last_obs.target[1]].solid
    /\ collider[last_obs.target[1]]

----------------------------------------------------------------------------
(* BreakTimer: claims *)

\* C26: a tile carrying a BreakTimer is solid and the elapsed time of the
\* timer is below BREAK_TIME: the destroy that brings the timer to BREAK_TIME
\* empties the tile and takes the timer off in one operation
C26_TimerOnlyOnSolidBelowBreakTime ==
    \A c \in Coords :
        break_timer[c] # <<>> =>
            /\ tiles[c].solid
            /\ break_timer[c][1] < BREAK_TIME

\* a destroy has just brought a timer to BREAK_TIME or past it: the tile is
\* empty and carries no timer, while another tile still has one running
C26_Witness ==
    /\ last_obs.kind = "TileDestroyed"
    /\ last_obs.timer # <<>>
    /\ ~NotReady(Tick(last_obs.timer[1], timestep))
    /\ ~tiles[last_obs.target[1]].solid
    /\ break_timer[last_obs.target[1]] = <<>>
    /\ \E c \in Coords : break_timer[c] # <<>> /\ break_timer[c][1] > timestep

----------------------------------------------------------------------------
(* handle_item_pickups: the inventory's shape *)

\* no two slots hold the same item and no stack is empty
OneStackPerItem ==
    /\ \A i, j \in 1..Len(inventory) :
           (inventory[i] # <<>> /\ inventory[j] # <<>>
            /\ inventory[i][1].item_id = inventory[j][1].item_id) => i = j
    /\ \A i \in 1..Len(inventory) : inventory[i] # <<>> => inventory[i][1].count >= 1

\* a handler runs over events that all find neither a stack nor an empty slot
NoRoomRun ==
    /\ item_events # <<>>
    /\ item_events' # item_events
    /\ EmptySlots(inventory) = {}
    /\ \A k \in 1..Len(item_events) : MatchingSlots(inventory, item_events[k]) = {}

\* C27: whatever events the handlers have gone through, no two slots hold
\* stacks of one item, every stack counts at least 1, and a pickup with no
\* stack of its item and no empty slot leaves the inventory as it was
C27_OneStackPerItem == []OneStackPerItem /\ [][NoRoomRun => inventory' = inventory]_vars

\* the inventory is full, five stacks of five items, and the last run read
\* a pickup of a sixth item and put it nowhere
C27_Witness ==
    /\ EmptySlots(inventory) = {}
    /\ \E id \in PickedUpIds : MatchingSlots(inventory, id) = {}
    /\ item_events = <<>>
    /\ result # <<>>
    /\ result[1].dropped >= 1

----------------------------------------------------------------------------
(* rasterize_canvas: the offsets queue *)

\* the pop_front that gives column x its offset, counted from 1
PopOf(width, x) == (x - MapParameters(width).left_edge) + 1

\* C28: when rasterize_canvas accepts its offsets, every column of
\* left_edge..=right_edge pops an offset that is in the queue: the queue does
\* not run out before the last column
C28_QueueNeverExhausted ==
    (result # <<>> /\ ~result[1].world.panic) =>
        \A x \in ColumnsOf(result[1].map_width) :
            PopOf(result[1].map_width, x) <= Len(result[1].offsets)

----------------------------------------------------------------------------
(* the surface levels of a generated map: claims *)

\* C29: with the default parameters the level of every column's grass block
\* lies within bottom_edge..top_edge, so from_world spawns one grass tile in
\* every column and drops no solid tile above top_edge
C29_SurfaceWithinMap ==
    (result # <<>> /\ result[1].pc = "rasterized") =>
        \A x \in DOMAIN result[1].level :
            /\ result[1].level[x] >= MapParametersDefault.bottom_edge
            /\ result[1].level[x] <= MapParametersDefault.top_edge

----------------------------------------------------------------------------
(* tile_interaction: claims *)

\* C30: tile_interaction never aborts: with a button pressed it triggers the
\* tile events of the tile under the cursor or, the cursor being outside the
\* window or over no map entry, does nothing
C30_NeverAborts ==
    result # <<>> =>
        /\ result[1].outcome = "returned"
        /\ result[1].tile = <<>> => pending = <<>>

====
